---- MODULE Spec2Model ----
(***************************************************************************)
(* A model of the go-chat client: the in-memory Store                      *)
(* (client/infra/data/inmemory), the chat and user domain types and the    *)
(* Peer Connection (client/infra/socket/conn).                             *)
(*                                                                         *)
(* Go strings that the code sorts, joins or encodes (user ids, chat ids)   *)
(* are sequences of byte values; names, addresses and texts, which the     *)
(* code only copies and compares, are TLA+ strings.  time.Time values are  *)
(* integer instants.                                                       *)
(***************************************************************************)
EXTENDS Integers, Sequences, FiniteSets, TLC

(***************************************************************************)
(* Bounds of the model.                                                    *)
(***************************************************************************)
\* timestamps range over 1..MaxTime
MaxTime == 3
\* AddChatLine calls in one behaviour of SpecLines
MaxLines == 3
\* Store calls in one behaviour of Spec besides main's warm-up pass:
\* AddChatLine calls and RefreshUsers calls of the directory sync loop
MaxCalls == 2
\* longest user id drawn for the chat id computation
MaxIdLen == 2
\* connections the accept loop accepts in one behaviour
MaxAccepts == 1
\* messages of the current user the Socket Manager sends in one behaviour
\* SendMessage calls of the caller that fills the outbound queue
MaxQueued == 6

\* AddChatLine calls, and RefreshUsers calls, of the producers that fill the
\* Store's event channels
MaxEvents == 11

\* bytes of the text of a framed message, frames written to one stream, and
\* bytes of an arbitrary input stream
MaxText == 2

MaxFrames == 2

MaxStream == 7

MaxOut == 1
\* handler goroutines the dispatcher has started that have not yet returned
MaxHandlers == 2
\* messages the Socket Manager's connections receive in one behaviour
MaxIn == 1
\* SendMessage calls on one connection in one behaviour
MaxSends == 2
\* messages the remote peer sends on one connection in one behaviour
MaxRecv == 1

(***************************************************************************)
(* Strings as byte sequences.                                              *)
(***************************************************************************)
Underscore == 95

\* Go's string comparison a < b: bytewise lexicographic.
StrLess(a, b) ==
    \E i \in 1..Len(b) :
        /\ \A k \in 1..(i - 1) : k <= Len(a) /\ a[k] = b[k]
        /\ \/ i = Len(a) + 1
           \/ i <= Len(a) /\ a[i] < b[i]

Swap(s, i, j) == [s EXCEPT ![i] = s[j], ![j] = s[i]]

\* sort.Strings on at most 12 elements is an insertion sort.
RECURSIVE BubbleLeftStr(_, _)
BubbleLeftStr(s, j) ==
    IF j > 1 /\ StrLess(s[j], s[j - 1])
    THEN BubbleLeftStr(Swap(s, j, j - 1), j - 1)
    ELSE s

RECURSIVE InsertionSortStr(_, _)
InsertionSortStr(s, i) ==
    IF i > Len(s) THEN s ELSE InsertionSortStr(BubbleLeftStr(s, i), i + 1)

sortStringsUnsorted(ids) == ids

sortStrings(ids) == InsertionSortStr(ids, 2)

\* strings.Join(elems, "_")
RECURSIVE stringsJoin(_)
stringsJoin(elems) ==
    IF Len(elems) = 0 THEN <<>>
    ELSE IF Len(elems) = 1 THEN elems[1]
    ELSE elems[1] \o <<Underscore>> \o stringsJoin(Tail(elems))

\* The alphabet of base64.StdEncoding and its padding character '='.
Base64Alphabet ==
    <<65, 66, 67, 68, 69, 70, 71, 72, 73, 74, 75, 76, 77,
      78, 79, 80, 81, 82, 83, 84, 85, 86, 87, 88, 89, 90,
      97, 98, 99, 100, 101, 102, 103, 104, 105, 106, 107, 108, 109,
      110, 111, 112, 113, 114, 115, 116, 117, 118, 119, 120, 121, 122,
      48, 49, 50, 51, 52, 53, 54, 55, 56, 57, 43, 47>>
Base64Pad == 61

\* base64.StdEncoding.EncodeToString: 3 bytes become 4 characters, the last
\* group is padded.
RECURSIVE base64Encode(_)
base64Encode(bs) ==
    IF Len(bs) = 0 THEN <<>>
    ELSE IF Len(bs) = 1 THEN
        << Base64Alphabet[(bs[1] \div 4) + 1],
           Base64Alphabet[((bs[1] % 4) * 16) + 1],
           Base64Pad, Base64Pad >>
    ELSE IF Len(bs) = 2 THEN
        << Base64Alphabet[(bs[1] \div 4) + 1],
           Base64Alphabet[((bs[1] % 4) * 16 + (bs[2] \div 16)) + 1],
           Base64Alphabet[((bs[2] % 16) * 4) + 1],
           Base64Pad >>
    ELSE
        << Base64Alphabet[(bs[1] \div 4) + 1],
           Base64Alphabet[((bs[1] % 4) * 16 + (bs[2] \div 16)) + 1],
           Base64Alphabet[((bs[2] % 16) * 4 + (bs[3] \div 64)) + 1],
           Base64Alphabet[(bs[3] % 64) + 1] >>
        \o base64Encode(SubSeq(bs, 4, Len(bs)))

Range(f) == {f[i] : i \in DOMAIN f}

(***************************************************************************)
(* Domain types: domain.User, domain.Message, domain.Chat.                 *)
(***************************************************************************)
User(id, name, address, port) ==
    [Id |-> id, Name |-> name, Address |-> address, Port |-> port]

Message(chatId, userId, userName, text, at, errorMessage) ==
    [ChatId |-> chatId, UserId |-> userId, UserName |-> userName,
     Text |-> text, At |-> at, ErrorMessage |-> errorMessage]

Chat(id, ownerUser, users, content, offline) ==
    [Id |-> id, OwnerUser |-> ownerUser, Users |-> users,
     Content |-> content, Offline |-> offline]

NoUser == User(<<>>, "", "", 0)

GetUserLenient(c, id) ==
    IF \E i \in 1..Len(c.Users) : c.Users[i].Id = id
    THEN [err |-> "nil",
          user |-> c.Users[CHOOSE k \in 1..Len(c.Users) : c.Users[k].Id = id]]
    ELSE [err |-> "nil", user |-> c.OwnerUser]

\* Chat.GetUser: the first of c.Users with that id, else the owner, else
\* ChatUserNotFoundErr.
GetUser(c, id) ==
    IF \E i \in 1..Len(c.Users) : c.Users[i].Id = id
    THEN LET i == CHOOSE k \in 1..Len(c.Users) :
                     /\ c.Users[k].Id = id
                     /\ \A l \in 1..(k - 1) : c.Users[l].Id # id
         IN [err |-> "nil", user |-> c.Users[i]]
    ELSE IF id = c.OwnerUser.Id
    THEN [err |-> "nil", user |-> c.OwnerUser]
    ELSE [err |-> "ChatUserNotFound", user |-> NoUser]

(***************************************************************************)
(* Store: pure parts.                                                      *)
(***************************************************************************)
NoChat == Chat(<<>>, NoUser, <<>>, <<>>, FALSE)

\* store.buildChat(users...) of a store whose currentUser is cu.
buildChat(cu, users) ==
    IF \E i \in 1..Len(users) : users[i].Id = cu.Id
    THEN [err |-> "WrongNewChatUsers", chat |-> NoChat]
    ELSE LET userIds == <<cu.Id>> \o [i \in 1..Len(users) |-> users[i].Id]
             chatId  == base64Encode(stringsJoin(sortStrings(userIds)))
         IN [err |-> "nil",
             chat |-> Chat(chatId, cu, users, <<>>, FALSE)]

\* sort.Slice(c.Content, func(i, j) { Content[i].At.Before(Content[j].At) }):
\* on at most 12 elements an insertion sort, which leaves equal timestamps in
\* their order of arrival.
RECURSIVE BubbleLeftMsg(_, _)
BubbleLeftMsg(s, j) ==
    IF j > 1 /\ s[j].At < s[j - 1].At
    THEN BubbleLeftMsg(Swap(s, j, j - 1), j - 1)
    ELSE s

RECURSIVE InsertionSortMsg(_, _)
InsertionSortMsg(s, i) ==
    IF i > Len(s) THEN s ELSE InsertionSortMsg(BubbleLeftMsg(s, i), i + 1)

sortContentUnsorted(content) == content

sortContent(content) == InsertionSortMsg(content, 2)

\* Capacity of the chatLineUpdates and chatsUpdates channels.
UpdatesCap == 10

sendLineUpdateEvicts(updates, m) ==
    IF Len(updates) < UpdatesCap THEN Append(updates, m)
    ELSE Append(Tail(updates), m)

\* store.sendLineUpdate: a non-blocking send, dropped when the channel is full.
sendLineUpdate(updates, m) ==
    IF Len(updates) < UpdatesCap THEN Append(updates, m) ELSE updates

\* store.sendChatUpdate: a non-blocking send, dropped when the channel is full.
sendChatUpdate(updates, cId) ==
    IF Len(updates) < UpdatesCap THEN Append(updates, cId) ELSE updates

populateUserNameKeep(message, u) == message

\* message.UserName = u.Name
populateUserName(message, u) == [message EXCEPT !.UserName = u.Name]

\* The errors AddChatLine returns: nil,
\* fmt.Errorf("%w: %s", data.ChatNotFoundErr, message.ChatId) and
\* fmt.Errorf("%w: user %s, chat: %s", data.UserNotInChatErr, message.UserId,
\* message.ChatId).
ErrNil == [err |-> "nil", UserId |-> <<>>, ChatId |-> <<>>]
ChatNotFoundErr(chatId) ==
    [err |-> "ChatNotFound", UserId |-> <<>>, ChatId |-> chatId]
UserNotInChatErr(userId, chatId) ==
    [err |-> "UserNotInChat", UserId |-> userId, ChatId |-> chatId]

AddChatLineAppendFirst(chs, updates, message) ==
    IF message.ChatId \notin DOMAIN chs
    THEN [chats |-> chs, updates |-> updates,
          err |-> ChatNotFoundErr(message.ChatId)]
    ELSE LET c == chs[message.ChatId]
             r == GetUser(c, message.UserId)
             content == sortContent(Append(c.Content, message))
         IN [chats |-> [chs EXCEPT ![message.ChatId].Content = content],
             updates |-> sendLineUpdate(updates, message),
             err |-> IF r.err # "nil"
                     THEN UserNotInChatErr(message.UserId, message.ChatId)
                     ELSE ErrNil]

\* store.AddChatLine on the chats map chs and the chatLineUpdates channel:
\* the map and the channel it leaves, and the error it returns.
AddChatLine(chs, updates, message) ==
    IF message.ChatId \notin DOMAIN chs
    THEN [chats |-> chs, updates |-> updates,
          err |-> ChatNotFoundErr(message.ChatId)]
    ELSE LET c == chs[message.ChatId]
             r == GetUser(c, message.UserId)
         IN IF r.err # "nil"
            THEN [chats |-> chs, updates |-> updates,
                  err |-> UserNotInChatErr(message.UserId, message.ChatId)]
            ELSE LET m == populateUserName(message, r.user)
                     content == sortContent(Append(c.Content, m))
                 IN [chats |-> [chs EXCEPT ![message.ChatId].Content = content],
                     updates |-> sendLineUpdate(updates, m),
                     err |-> ErrNil]

\* s.chats[chat.Id] = chat
MapPut(chs, chat) ==
    [k \in DOMAIN chs \cup {chat.Id} |-> IF k = chat.Id THEN chat ELSE chs[k]]

\* delete(chats, id)
MapDelete(chs, id) == [k \in DOMAIN chs \ {id} |-> chs[k]]

storeChatOverwrite(chs, updates, chat) ==
    [chats |-> MapPut(chs, chat), updates |-> sendChatUpdate(updates, chat.Id)]

storeChatDropOffline(chs, updates, chat) ==
    LET stored == IF chat.Id \in DOMAIN chs
                  THEN [chat EXCEPT !.Content = chs[chat.Id].Content]
                  ELSE chat
    IN [chats |-> IF chat.Offline THEN MapDelete(chs, chat.Id)
                  ELSE MapPut(chs, stored),
        updates |-> sendChatUpdate(updates, chat.Id)]

\* store.storeChat on the chats map chs and the chatsUpdates channel: the
\* stored chat keeps the content the map already holds for its id.
storeChat(chs, updates, chat) ==
    LET stored == IF chat.Id \in DOMAIN chs
                  THEN [chat EXCEPT !.Content = chs[chat.Id].Content]
                  ELSE chat
    IN [chats |-> MapPut(chs, stored),
        updates |-> sendChatUpdate(updates, chat.Id)]

isCurrentUserNever(u, cu) == FALSE

\* u.Id == cu.Id, the test RefreshUsers skips a user on
isCurrentUser(u, cu) == u.Id = cu.Id

markOfflineKeep(c) == c

\* c.Offline = true
markOffline(c) == [c EXCEPT !.Offline = TRUE]

(***************************************************************************)
(* The users and the inputs of the model.                                  *)
(***************************************************************************)
IdA == <<97, 97, 97>>
IdB == <<98, 98, 98>>
IdC == <<97, 95, 98>>
IdUnknown == <<122>>

\* The current user of the Store, and the peers the Directory may list.
userA  == User(IdA, "A", "10.0.0.1", 1000)
userB  == User(IdB, "B", "10.0.0.2", 1000)
userC  == User(IdC, "C", "10.0.0.3", 1001)

\* The lists GET /clients may return to loadClients.
UserLists ==
    { <<>>, <<userA, userB>>, <<userC>>, <<userB, userC>> }

\* The lists of SpecLines: userB is registered or is not.
LineUserLists == { <<>>, <<userA, userB>> }

ChatIdAB == buildChat(userA, <<userB>>).chat.Id
ChatIdAC == buildChat(userA, <<userC>>).chat.Id
ChatIdUnknown == base64Encode(IdUnknown)

\* The messages handed to AddChatLine: by the UI (the current user's), by a
\* connection's receive callback and by handleNewConn (whatever the remote
\* peer sent), with any user name.
MessageInputs ==
    { Message(c, u, n, "hello", t, FALSE) :
        c \in {ChatIdAB, ChatIdAC, ChatIdUnknown},
        u \in {IdA, IdB, IdC},
        n \in {"", "B"},
        t \in {1, 2} }

\* The messages of SpecLines, as a connection's receive callback hands them
\* over: any timestamp, from userB or userC, for the chat of userB or an
\* unknown one.
LineInputs ==
    { Message(c, u, n, "hello", t, FALSE) :
        c \in {ChatIdAB, ChatIdUnknown},
        u \in {IdB, IdC},
        n \in {"", "B"},
        t \in 1..MaxTime }

\* The two callers of RefreshUsers (through loadClients): main's warm-up
\* pass, which runs once, and the directory sync loop.
Refreshers == {"main", "sync"}

(***************************************************************************)
(* State.                                                                  *)
(***************************************************************************)
VARIABLES
    chats,            \* store.chats: chat id -> domain.Chat
    chatLineUpdates,  \* store.chatLineUpdates, a channel of domain.Message
    chatsUpdates,     \* store.chatsUpdates, a channel of chat ids
    rf,               \* each RefreshUsers caller: its position and locals
    addRet,           \* the error the last AddChatLine call returned
    adds,             \* AddChatLine calls made
    syncs,            \* RefreshUsers calls made by the sync loop
    pair,             \* two peers, each building the chat with the other
    cn,               \* the Peer Connections: fields, goroutines, counters
    ctxDone,          \* the root context has been cancelled
    panicked,         \* the process has died of a panic
    task,             \* main and the goroutines it starts: where each is
    sm,               \* the Socket Manager: connection table and its mutex
    dir,              \* the Directory: its registry and its last answer
    fr                \* a byte stream between a Writer and a Reader

storeVars == <<chats, chatLineUpdates, chatsUpdates, rf, addRet, adds, syncs>>

connVars == <<cn, ctxDone, panicked>>

nonStoreVars == <<pair, cn, ctxDone, panicked, task, sm, dir, fr>>

vars == <<chats, chatLineUpdates, chatsUpdates, rf, addRet, adds, syncs, pair,
          cn, ctxDone, panicked, task, sm, dir, fr>>

EmptyChats == [k \in {} |-> NoChat]

\* id -> Offline, what a RefreshUsers call can change of the chats it finds
Flags(chs) == [k \in DOMAIN chs |-> chs[k].Offline]

RfIdle ==
    [pc |-> "idle", users |-> <<>>, idx |-> 1, chats |-> EmptyChats,
     err |-> "nil", alone |-> TRUE, pre |-> Flags(EmptyChats)]

\* RefreshUsers has returned err: its locals are gone
RfDone(err, alone) == [RfIdle EXCEPT !.pc = "done", !.err = err, !.alone = alone]

Running(p) == rf[p].pc = "running"

\* the first port listenOnAvailablePort tries
portSeed == 1000

\* main has constructed the socket, the Store (whose dispatcher goroutine
\* runs) and the directory client and has started its goroutines: the signal
\* watcher, the directory sync loop and the one calling so.Listen.
\* NewSocket sets ip, cm and connections only, so that s.port is 0 when main
\* reads so.AllocatedPort() for the id (idPort) and for the Port of the
\* current user it hands to NewStore (cuPort), which every ping sends.
TaskInit ==
    [main |-> "warmup", sig |-> "wait", sync |-> "select", listen |-> "start",
     listener |-> "none", closer |-> "none", accept |-> "none",
     dispatcher |-> "run", tui |-> "idle", accepted |-> 0,
     port |-> 0, idPort |-> 0, cuPort |-> 0,
     answers |-> <<>>,   \* what net.Listen answers on portSeed, portSeed + 1, ...
     listenErr |-> "nil",
     uiChats |-> {},     \* the chat ids the UI's chat handler was called with
     ticks |-> <<>>]     \* per tick of the sync loop, how PUT and GET ended

\* the connection objects the Socket Manager may create in one behaviour
SockConns == {1, 2}

\* nobody holds s.cm
SmFree == [by |-> "none", k |-> 0]

\* The Socket Manager as NewSocket leaves it: an empty connection table and
\* s.cm free; no handleNewConn, removeConn or handleOutgoingMessages runs.
SmInit ==
    [connections |-> EmptyChats,
     cm |-> SmFree,
     hn |-> [k \in SockConns |-> "none"],
     rm |-> [k \in SockConns |-> "none"],
     out |-> 0,
     outs |-> 0,
     ins |-> 0,
     hs |-> {},          \* the running goroutines of the message handler
     sent |-> <<>>,      \* the texts handed to SendMessage, in that order
     rcvd |-> {},        \* the texts that came from a peer
     refused |-> {}]     \* the hellos whose socket handleNewConn closed

(***************************************************************************)
(* Directory: the clients service and the /ping handler.  Strings are      *)
(* sequences of characters; " " is the white space strings.TrimSpace cuts. *)
(***************************************************************************)
DirChars == {"a", " "}

DirStrings == UNION { [1..n -> DirChars] : n \in 0..MaxIdLen }

\* domain.Client
Client(id, name, ip, port) == [ID |-> id, Name |-> name, IP |-> ip, Port |-> port]

\* What a PUT /ping carries: no body, a body that is not the JSON of a
\* client, or the JSON of a client (a missing field decodes to "" or 0).
PingRequests ==
    {[kind |-> "nobody"], [kind |-> "malformed"]}
    \cup {[kind |-> "client", client |-> Client(id, name, ip, port)] :
            id \in DirStrings,
            name \in {<<>>, <<" ">>, <<"a">>},
            ip \in {<<>>, <<" ">>, <<"a">>},
            port \in {0, 999, 1000, 1001}}

RECURSIVE TrimLeft(_)
TrimLeft(s) ==
    IF s # <<>> /\ Head(s) = " " THEN TrimLeft(Tail(s)) ELSE s

RECURSIVE TrimRight(_)
TrimRight(s) ==
    IF s # <<>> /\ s[Len(s)] = " " THEN TrimRight(SubSeq(s, 1, Len(s) - 1)) ELSE s

TrimSpaceNone(s) == s

\* strings.TrimSpace
TrimSpace(s) == TrimRight(TrimLeft(s))

\* the least port Validate accepts
MinPort == 1000

\* Client.Validate: nil or the text of the error
Validate(c) ==
    IF Len(TrimSpace(c.ID)) = 0 THEN "client id empty"
    ELSE IF Len(TrimSpace(c.Name)) = 0 THEN "client name empty"
    ELSE IF Len(TrimSpace(c.IP)) = 0 THEN "client ip empty"
    ELSE IF c.Port < MinPort THEN "invalid client port"
    ELSE "nil"

\* clientsSvc.RegisterClient: c.clients.AddOrReplace(client.ID, client, ...)
RegisterClient(clients, client) ==
    [id \in DOMAIN clients \cup {client.ID} |->
        IF id = client.ID THEN client ELSE clients[id]]

\* the status line and body an http handler answers with
Answer(d, status, body) == [d EXCEPT !.status = status, !.body = body]

\* the handler registerPingHandler installs for PUT /ping
registerPingHandler(d, req) ==
    IF req.kind = "nobody" THEN Answer(d, 400, <<"no body">>)
    ELSE IF req.kind = "malformed" THEN Answer(d, 400, <<"malformed body">>)
    ELSE LET err == Validate(req.client)
         IN IF err # "nil" THEN Answer(d, 400, <<"message", err>>)
            ELSE [Answer(d, 200, <<>>) EXCEPT
                    !.clients = RegisterClient(@, req.client)]

\* NewClientsSvc: an empty registry; nothing answered yet
DirInit ==
    [clients |-> [id \in {} |-> Client(<<>>, <<>>, <<>>, 0)],
     status |-> 0, body |-> <<>>, req |-> [kind |-> "none"], pings |-> 0]

(***************************************************************************)
(* Framing: what writeToConn puts on the socket and ReadNetworkMessage     *)
(* takes from it.  A byte is a number; "0".."9" are 48..57, "+" is 43 and  *)
(* "-" is 45.  encoding/gob is stood for by a codec that writes a marker,  *)
(* the three scalar fields and the length of the text, then the text, and  *)
(* that refuses anything else as gob does a truncated stream.              *)
(***************************************************************************)
\* math.MaxUint16
MaxUint16 == 65535

\* NetworkMsg
NetworkMsg(userId, chatId, message, at) ==
    [UserId |-> userId, ChatId |-> chatId, Message |-> message, At |-> at]

NoNetworkMsg == NetworkMsg(0, 0, <<>>, 0)

GobMarker == 103

\* gob.NewEncoder(&b).Encode(msg)
gobEncode(m) ==
    <<GobMarker, m.UserId, m.ChatId, m.At, Len(m.Message)>> \o m.Message

\* gob.NewDecoder(bytes.NewReader(msg)).Decode(&m)
gobDecode(b) ==
    IF b = <<>> THEN [err |-> "EOF", msg |-> NoNetworkMsg]
    ELSE IF Len(b) < 5 \/ b[1] # GobMarker \/ Len(b) # 5 + b[5]
    THEN [err |-> "unexpected EOF", msg |-> NoNetworkMsg]
    ELSE [err |-> "nil",
          msg |-> NetworkMsg(b[2], b[3], SubSeq(b, 6, Len(b)), b[4])]

RECURSIVE Itoa(_)
Itoa(n) == IF n < 10 THEN <<48 + n>> ELSE Append(Itoa(n \div 10), 48 + (n % 10))

SprintfD(n) == Itoa(n)

\* fmt.Sprintf("%05d", n) for n >= 0: at least 5 digits, zero-padded
Sprintf05d(n) ==
    LET d == Itoa(n)
    IN IF Len(d) >= 5 THEN d ELSE [i \in 1..(5 - Len(d)) |-> 48] \o d

RECURSIVE DigitsValue(_)
DigitsValue(d) ==
    IF d = <<>> THEN 0
    ELSE 10 * DigitsValue(SubSeq(d, 1, Len(d) - 1)) + (d[Len(d)] - 48)

\* strconv.Atoi: an optional sign, then decimal digits only
Atoi(s) ==
    LET signed == s # <<>> /\ s[1] \in {43, 45}
        d == IF signed THEN Tail(s) ELSE s
    IN IF d = <<>> \/ \E i \in DOMAIN d : d[i] \notin 48..57
       THEN [err |-> "invalid syntax", val |-> 0]
       ELSE [err |-> "nil",
             val |-> IF signed /\ s[1] = 45 THEN 0 - DigitsValue(d)
                     ELSE DigitsValue(d)]

\* io.ReadFull(c, buf) with len(buf) = n on a stream that ends after its
\* last byte: EOF when no byte was read, unexpected EOF when too few were.
ReadFull(stream, n) ==
    IF n = 0 THEN [buf |-> <<>>, rest |-> stream, err |-> "nil"]
    ELSE IF stream = <<>> THEN [buf |-> <<>>, rest |-> <<>>, err |-> "EOF"]
    ELSE IF Len(stream) < n
    THEN [buf |-> stream, rest |-> <<>>, err |-> "unexpected EOF"]
    ELSE [buf |-> SubSeq(stream, 1, n),
          rest |-> SubSeq(stream, n + 1, Len(stream)), err |-> "nil"]

\* what ReadNetworkMessage hands back, and what it left of the stream
ReadResult(msg, err, rest, panic) ==
    [msg |-> msg, err |-> err, rest |-> rest, panic |-> panic]

\* ReadNetworkMessage(c): make([]byte, size) panics on a negative size.
ReadNetworkMessage(stream) ==
    LET h == ReadFull(stream, 5)
        a == Atoi(h.buf)
        p == ReadFull(h.rest, a.val)
        d == gobDecode(p.buf)
    IN IF h.err # "nil" THEN ReadResult(NoNetworkMsg, h.err, h.rest, FALSE)
       ELSE IF a.err # "nil"
       THEN ReadResult(NoNetworkMsg, "size unparseable", h.rest, FALSE)
       ELSE IF a.val < 0 THEN ReadResult(NoNetworkMsg, "nil", h.rest, TRUE)
       ELSE IF p.err # "nil" THEN ReadResult(NoNetworkMsg, p.err, p.rest, FALSE)
       ELSE IF d.err # "nil" THEN ReadResult(NoNetworkMsg, d.err, p.rest, FALSE)
       ELSE ReadResult(d.msg, "nil", p.rest, FALSE)

\* the bytes writeToConn hands to c.conn.Write for message m: none when the
\* encoding is longer than math.MaxUint16
Frame(m) ==
    LET msgEncoded == gobEncode(m)
    IN IF Len(msgEncoded) > MaxUint16 THEN <<>>
       ELSE Sprintf05d(Len(msgEncoded)) \o msgEncoded

\* ReadFull would not wait for more bytes: the stream has ended, or it
\* holds a whole header and, when the header is a size, that many bytes
CanRead(stream, closed) ==
    \/ closed
    \/ /\ Len(stream) >= 5
       /\ LET a == Atoi(SubSeq(stream, 1, 5))
          IN a.err # "nil" \/ a.val < 0 \/ Len(stream) >= 5 + a.val

\* the messages a Writer frames
FrameMsgs ==
    {NetworkMsg(1, 2, text, at) :
        text \in UNION {[1..n -> {48, 97}] : n \in 0..MaxText}, at \in {1, 2}}

\* the bytes of the streams a peer may send: digits, a sign, a letter
StreamBytes == {48, 49, 45, 100}

Streams == UNION {[1..n -> StreamBytes] : n \in 0..MaxStream}

\* an empty stream, nothing written or read yet
FrInit ==
    [stream |-> <<>>, closed |-> FALSE, input |-> <<>>, sent |-> <<>>,
     got |-> <<>>, err |-> "nil", reads |-> 0]

\* everything but the byte stream and the tasks of main
StoreIdle ==
    /\ sm = SmInit
    /\ dir = DirInit
    /\ chats = EmptyChats
    /\ chatLineUpdates = <<>>
    /\ chatsUpdates = <<>>
    /\ rf = [p \in Refreshers |-> RfIdle]
    /\ addRet = ErrNil
    /\ adds = 0
    /\ syncs = 0

\* everything but the byte stream
StoreStart == task = TaskInit /\ StoreIdle

StoreInit == StoreStart /\ fr = FrInit

(***************************************************************************)
(* Store: operations.                                                      *)
(***************************************************************************)
\* A call of store.AddChatLine(message), atomic under s.m.
CallAddChatLine(inputs) ==
    /\ \E message \in inputs :
         LET r == AddChatLine(chats, chatLineUpdates, message)
         IN /\ chats' = r.chats
            /\ chatLineUpdates' = r.updates
            /\ addRet' = r.err
    /\ adds' = adds + 1
    /\ UNCHANGED <<chatsUpdates, rf, syncs>>
    /\ UNCHANGED nonStoreVars

\* RefreshUsers(users), first part: cu := s.CurrentUser(); chats := s.GetChats()
BeginRefreshOf(p, lists) ==
    /\ rf[p].pc # "running"
    /\ \E users \in lists :
         rf' = [q \in Refreshers |->
                  IF q = p
                  THEN [pc |-> "running", users |-> users, idx |-> 1,
                        chats |-> chats, err |-> "nil",
                        alone |-> \A o \in Refreshers \ {p} : ~Running(o),
                        pre |-> Flags(chats)]
                  ELSE [rf[q] EXCEPT !.alone = rf[q].alone /\ ~Running(q)]]
    /\ syncs' = IF p = "sync" THEN syncs + 1 ELSE syncs

\* the call of RefreshUsers by a caller that does nothing else in that step
BeginRefresh(p, lists) ==
    /\ BeginRefreshOf(p, lists)
    /\ UNCHANGED <<chats, chatLineUpdates, chatsUpdates, addRet, adds>>
    /\ UNCHANGED nonStoreVars

\* main calls RefreshUsers once, in its warm-up; the sync loop calls it on
\* every tick.
RefreshUsersBegin(p, lists) ==
    /\ IF p = "main" THEN rf[p].pc = "idle" ELSE adds + syncs < MaxCalls
    /\ BeginRefresh(p, lists)

\* chat, err := buildChat(cu, u), for each user a list may hold
builtChat ==
    [u \in UNION {Range(l) : l \in UserLists} |-> buildChat(userA, <<u>>)]

\* One iteration of "for _, u := range users": the current user is skipped,
\* any other user's chat is built, taken out of the local map and stored.
RefreshUsersUser(p) ==
    /\ Running(p)
    /\ rf[p].idx <= Len(rf[p].users)
    /\ LET u == rf[p].users[rf[p].idx]
           b == builtChat[u]
       IN IF isCurrentUser(u, userA)
          THEN /\ rf' = [rf EXCEPT ![p].idx = @ + 1]
               /\ UNCHANGED <<chats, chatsUpdates>>
          ELSE IF b.err # "nil"
          THEN /\ rf' = [rf EXCEPT ![p] = RfDone(b.err, rf[p].alone)]
               /\ UNCHANGED <<chats, chatsUpdates>>
          ELSE LET r == storeChat(chats, chatsUpdates, b.chat)
               IN /\ chats' = r.chats
                  /\ chatsUpdates' = r.updates
                  /\ rf' = [rf EXCEPT ![p].idx = @ + 1,
                                      ![p].chats = MapDelete(@, b.chat.Id)]
    /\ UNCHANGED <<chatLineUpdates, addRet, adds, syncs>>
    /\ UNCHANGED nonStoreVars

\* One iteration of "for _, c := range chats", in any order: a chat left in
\* the local map is stored with Offline = true.
RefreshUsersOffline(p) ==
    /\ Running(p)
    /\ rf[p].idx > Len(rf[p].users)
    /\ \E id \in DOMAIN rf[p].chats :
         LET r == storeChat(chats, chatsUpdates, markOffline(rf[p].chats[id]))
         IN /\ chats' = r.chats
            /\ chatsUpdates' = r.updates
            /\ rf' = [rf EXCEPT ![p].chats = MapDelete(@, id)]
    /\ UNCHANGED <<chatLineUpdates, addRet, adds, syncs>>
    /\ UNCHANGED nonStoreVars

\* return nil
RefreshUsersReturn(p) ==
    /\ Running(p)
    /\ rf[p].idx > Len(rf[p].users)
    /\ DOMAIN rf[p].chats = {}
    /\ rf' = [rf EXCEPT ![p] = RfDone("nil", rf[p].alone)]
    /\ UNCHANGED <<chats, chatLineUpdates, chatsUpdates, addRet, adds, syncs>>
    /\ UNCHANGED nonStoreVars

\* The dispatcher goroutine of NewStore takes a MessageAdded event and hands
\* it to the registered handlers.
DispatchLineUpdate ==
    /\ task.dispatcher = "run"
    /\ chatLineUpdates # <<>>
    /\ chatLineUpdates' = Tail(chatLineUpdates)
    /\ UNCHANGED <<chats, chatsUpdates, rf, addRet, adds, syncs>>
    /\ UNCHANGED nonStoreVars

\* The dispatcher goroutine takes a ChatChanged event.
DispatchChatUpdate ==
    /\ task.dispatcher = "run"
    /\ chatsUpdates # <<>>
    /\ chatsUpdates' = Tail(chatsUpdates)
    /\ UNCHANGED <<chats, chatLineUpdates, rf, addRet, adds, syncs>>
    /\ UNCHANGED nonStoreVars

StoreAdd == adds + syncs < MaxCalls /\ CallAddChatLine(MessageInputs)

LinesAdd == adds < MaxLines /\ CallAddChatLine(LineInputs)

LinesNext ==
    \/ LinesAdd
    \/ RefreshUsersBegin("sync", LineUserLists)
    \/ RefreshUsersUser("sync")
    \/ RefreshUsersOffline("sync")
    \/ RefreshUsersReturn("sync")
    \/ DispatchLineUpdate
    \/ DispatchChatUpdate

StoreNext ==
    \/ StoreAdd
    \/ \E p \in Refreshers : RefreshUsersBegin(p, UserLists)
    \/ \E p \in Refreshers : RefreshUsersUser(p)
    \/ \E p \in Refreshers : RefreshUsersOffline(p)
    \/ \E p \in Refreshers : RefreshUsersReturn(p)

(***************************************************************************)
(* main and its goroutines (client/cmd/client/main.go), socket.Listen and  *)
(* the accept loop, the Store's dispatcher and the UI's Start.             *)
(***************************************************************************)
\* the process is running: main has not returned and log.Fatal was not called
Alive == task.main # "exited"

TaskUnchanged == UNCHANGED <<pair, cn, panicked, sm, dir, fr>>

\* main's warm-up loadClients: dc.Users succeeded and RefreshUsers is called.
MainLoadClients ==
    /\ Alive
    /\ task.main = "warmup"
    /\ RefreshUsersBegin("main", LineUserLists)

\* a step of RefreshUsers, called by main's warm-up or by the sync loop
TaskRefreshUsersUser == Alive /\ \E p \in Refreshers : RefreshUsersUser(p)

TaskRefreshUsersOffline == Alive /\ \E p \in Refreshers : RefreshUsersOffline(p)

TaskRefreshUsersReturn == Alive /\ \E p \in Refreshers : RefreshUsersReturn(p)

\* main calls tui.Start(ctx), after loadClients returned (with or without
\* having called RefreshUsers): Start spawns the goroutine that waits for
\* ctx.Done() and calls h.app.Run().
MainStartTui ==
    /\ Alive
    /\ task.main = "warmup"
    /\ ~Running("main")
    /\ task' = [task EXCEPT !.main = "tui", !.tui = "run"]
    /\ UNCHANGED <<storeVars, ctxDone>>
    /\ TaskUnchanged

\* tui.Start's goroutine: <-ctx.Done(); h.app.Stop(), which makes Run return.
TuiStop ==
    /\ Alive
    /\ task.tui = "run"
    /\ ctxDone
    /\ task' = [task EXCEPT !.tui = "stopped"]
    /\ UNCHANGED <<storeVars, ctxDone>>
    /\ TaskUnchanged

\* h.app.Run() returns because the user left the UI or Run failed.
TuiQuit ==
    /\ Alive
    /\ task.tui = "run"
    /\ task' = [task EXCEPT !.tui = "stopped"]
    /\ UNCHANGED <<storeVars, ctxDone>>
    /\ TaskUnchanged

\* tui.Start has returned: main calls cancelFunc() and goes to wg.Wait().
MainCancel ==
    /\ Alive
    /\ task.main = "tui"
    /\ task.tui = "stopped"
    /\ task' = [task EXCEPT !.main = "wait"]
    /\ ctxDone' = TRUE
    /\ UNCHANGED storeVars
    /\ TaskUnchanged

\* wg.Wait() returns: the signal watcher, the sync loop and the goroutine
\* that called so.Listen have each called wg.Done().
MainWait ==
    /\ Alive
    /\ task.main = "wait"
    /\ task.sig = "done" /\ task.sync = "done" /\ task.listen = "done"
    /\ task' = [task EXCEPT !.main = "sleep"]
    /\ UNCHANGED <<storeVars, ctxDone>>
    /\ TaskUnchanged

\* <-time.After(1 * time.Second), the prints, and main returns.
MainExit ==
    /\ Alive
    /\ task.main = "sleep"
    /\ task' = [task EXCEPT !.main = "exited"]
    /\ UNCHANGED <<storeVars, ctxDone>>
    /\ TaskUnchanged

\* the signal watcher receives SIGINT/SIGTERM: close(exit), cancelFunc(),
\* wg.Done()
SigSignal ==
    /\ Alive
    /\ task.sig = "wait"
    /\ task' = [task EXCEPT !.sig = "done"]
    /\ ctxDone' = TRUE
    /\ UNCHANGED storeVars
    /\ TaskUnchanged

\* the signal watcher: case <-ctx.Done()
SigCtxDone ==
    /\ Alive
    /\ task.sig = "wait"
    /\ ctxDone
    /\ task' = [task EXCEPT !.sig = "done"]
    /\ UNCHANGED <<storeVars, ctxDone>>
    /\ TaskUnchanged

\* the sync loop: case <-tick.C with dc.Users succeeding: RefreshUsers is
\* called
SyncTick ==
    /\ Alive
    /\ task.sync = "select"
    /\ RefreshUsersBegin("sync", LineUserLists)

syncOnDoneKeepsLooping(t) == t

\* the sync loop: case <-ctx.Done(): tick.Stop(); return, then wg.Done()
syncOnDone(t) == [t EXCEPT !.sync = "done"]

SyncCtxDone ==
    /\ Alive
    /\ task.sync = "select"
    /\ ~Running("sync")
    /\ ctxDone
    /\ task' = syncOnDone(task)
    /\ UNCHANGED <<storeVars, ctxDone>>
    /\ TaskUnchanged

\* so.Listen(ctx) binds the first free port from portSeed on (here portSeed
\* itself) and stores it in s.port, starts the goroutine that closes the
\* listener on ctx.Done() and the accept loop, and returns nil: wg.Done().
ListenOk ==
    /\ Alive
    /\ task.listen = "start"
    /\ task' = [task EXCEPT !.listen = "done", !.listener = "open",
                            !.closer = "wait", !.accept = "accept",
                            !.port = portSeed]
    /\ UNCHANGED <<storeVars, ctxDone>>
    /\ TaskUnchanged

MaxPorts == 4

\* net.Listen: the port is bound, is in use, or may not be bound
ListenAnswers == {"ok", "EADDRINUSE", "EACCES"}

\* for i := portSeed; i < 65535; i++ { l, err := net.Listen("tcp", ":"+i) ... },
\* on a range of Len(answers) ports
RECURSIVE listenFrom(_, _)
listenFrom(answers, i) ==
    IF i >= portSeed + Len(answers)
    THEN [port |-> 0, err |-> "no available port"]
    ELSE LET err == answers[i - portSeed + 1]
         IN IF err = "ok" THEN [port |-> i, err |-> "nil"]
            ELSE IF err = "EADDRINUSE" THEN listenFrom(answers, i + 1)
            ELSE [port |-> 0, err |-> err]

listenOnAvailablePort(answers) == listenFrom(answers, portSeed)

\* so.Listen(ctx) with the port listenOnAvailablePort returns; on an error
\* main's goroutine ends the process with log.Fatal
Listen ==
    /\ Alive
    /\ task.listen = "start"
    /\ LET r == listenOnAvailablePort(task.answers)
       IN task' = IF r.err = "nil"
                  THEN [task EXCEPT !.listen = "done", !.listener = "open",
                                    !.closer = "wait", !.accept = "accept",
                                    !.port = r.port]
                  ELSE [task EXCEPT !.listen = "done", !.main = "exited",
                                    !.listenErr = r.err]
    /\ UNCHANGED <<storeVars, ctxDone>>
    /\ TaskUnchanged

\* so.Listen(ctx) returns an error: log.Fatal ends the process.
ListenFail ==
    /\ Alive
    /\ task.listen = "start"
    /\ task' = [task EXCEPT !.main = "exited"]
    /\ UNCHANGED <<storeVars, ctxDone>>
    /\ TaskUnchanged

\* Listen's first goroutine: <-ctx.Done(); l.Close()
CloserClose ==
    /\ Alive
    /\ task.closer = "wait"
    /\ ctxDone
    /\ task' = [task EXCEPT !.closer = "done", !.listener = "closed"]
    /\ UNCHANGED <<storeVars, ctxDone>>
    /\ TaskUnchanged

\* listenIncomingConns: l.Accept() returns a connection;
\* go s.handleNewConn(ctx, newCon)
AcceptConn ==
    /\ Alive
    /\ task.accept = "accept"
    /\ task.listener = "open"
    /\ task.accepted < MaxAccepts
    /\ task' = [task EXCEPT !.accepted = @ + 1]
    /\ UNCHANGED <<storeVars, ctxDone>>
    /\ TaskUnchanged

\* listenIncomingConns: l.Accept() fails with net.ErrClosed: break
AcceptClosed ==
    /\ Alive
    /\ task.accept = "accept"
    /\ task.listener = "closed"
    /\ task' = [task EXCEPT !.accept = "done"]
    /\ UNCHANGED <<storeVars, ctxDone>>
    /\ TaskUnchanged

\* the dispatcher of NewStore: case <-ctx.Done(): return
DispatcherCtxDone ==
    /\ Alive
    /\ task.dispatcher = "run"
    /\ ctxDone
    /\ task' = [task EXCEPT !.dispatcher = "done"]
    /\ UNCHANGED <<storeVars, ctxDone>>
    /\ TaskUnchanged

TaskDispatchLineUpdate == Alive /\ DispatchLineUpdate

TaskDispatchChatUpdate == Alive /\ DispatchChatUpdate

\* The dispatcher goroutine takes a ChatChanged event and runs the chat
\* handlers registered at that moment: the UI's, once tui.Start has called
\* bindStoreListeners, and none before.
UiDispatchChatUpdate ==
    /\ Alive
    /\ task.dispatcher = "run"
    /\ chatsUpdates # <<>>
    /\ chatsUpdates' = Tail(chatsUpdates)
    /\ task' = IF task.tui = "idle" THEN task
               ELSE [task EXCEPT !.uiChats = @ \cup {Head(chatsUpdates)}]
    /\ UNCHANGED <<chats, chatLineUpdates, rf, addRet, adds, syncs, ctxDone>>
    /\ TaskUnchanged

afterPingGivesUp(t, putOk) ==
    [t EXCEPT !.sync = IF putOk THEN "load" ELSE "select",
              !.ticks = Append(@, [put |-> putOk, get |-> "none"])]

\* ping(ctx, dc, store.CurrentUser()): an error of dc.Ping is logged
afterPing(t, putOk) ==
    [t EXCEPT !.sync = "load",
              !.ticks = Append(@, [put |-> putOk, get |-> "none"])]

\* the sync loop: case <-tick.C, and ping with the outcome of the PUT
SyncPing ==
    /\ Alive
    /\ task.sync = "select"
    /\ ~Running("sync")
    /\ Len(task.ticks) < MaxCalls
    /\ \E putOk \in BOOLEAN : task' = afterPing(task, putOk)
    /\ UNCHANGED <<storeVars, ctxDone>>
    /\ TaskUnchanged

\* loadClients: dc.Users fails, the error is logged and loadClients returns
SyncLoadFails ==
    /\ Alive
    /\ task.sync = "load"
    /\ task' = [task EXCEPT !.sync = "select",
                            !.ticks[Len(task.ticks)].get = "failed"]
    /\ UNCHANGED <<storeVars, ctxDone>>
    /\ TaskUnchanged

\* loadClients: dc.Users succeeds and store.RefreshUsers(users) is called
SyncLoadOk ==
    /\ Alive
    /\ task.sync = "load"
    /\ BeginRefreshOf("sync", LineUserLists)
    /\ task' = [task EXCEPT !.sync = "select",
                            !.ticks[Len(task.ticks)].get = "ok"]
    /\ UNCHANGED <<chats, chatLineUpdates, chatsUpdates, addRet, adds, ctxDone>>
    /\ TaskUnchanged

\* main from the warm-up to the UI, the sync loop with Directory calls that
\* fail or succeed, and the dispatcher with the UI's chat handler
SyncNext ==
    \/ MainLoadClients
    \/ TaskRefreshUsersUser
    \/ TaskRefreshUsersOffline
    \/ TaskRefreshUsersReturn
    \/ MainStartTui
    \/ UiDispatchChatUpdate
    \/ SyncPing
    \/ SyncLoadFails
    \/ SyncLoadOk
    \/ SigSignal
    \/ SyncCtxDone

\* the message userB sends while the process runs
TaskInputs == { Message(ChatIdAB, IdB, "", "hello", 1, FALSE) }

\* a connection's receive callback hands a message to the Store
TaskAdd == Alive /\ adds + syncs < MaxCalls /\ CallAddChatLine(TaskInputs)

MainNext ==
    \/ MainLoadClients
    \/ TaskRefreshUsersUser
    \/ TaskRefreshUsersOffline
    \/ TaskRefreshUsersReturn
    \/ MainStartTui
    \/ TuiStop
    \/ TuiQuit
    \/ MainCancel
    \/ MainWait
    \/ MainExit
    \/ SigSignal
    \/ SigCtxDone
    \/ SyncTick
    \/ SyncCtxDone
    \/ ListenOk
    \/ ListenFail
    \/ CloserClose
    \/ AcceptConn
    \/ AcceptClosed
    \/ DispatcherCtxDone
    \/ TaskDispatchLineUpdate
    \/ TaskDispatchChatUpdate
    \/ TaskAdd

\* The goroutines are scheduled, and what they wait for other than the
\* context (a signal, a tick, an inbound connection, the user) need not
\* come.
MainProgress ==
    \/ TaskRefreshUsersUser
    \/ TaskRefreshUsersOffline
    \/ TaskRefreshUsersReturn
    \/ MainStartTui
    \/ TuiStop
    \/ MainCancel
    \/ MainWait
    \/ MainExit
    \/ SigCtxDone
    \/ SyncCtxDone
    \/ ListenOk
    \/ ListenFail
    \/ CloserClose
    \/ AcceptClosed
    \/ DispatcherCtxDone

MainFairness == WF_vars(MainProgress)

(***************************************************************************)
(* The chat id as two peers compute it: each peer's Store builds the chat  *)
(* with the other peer as its only remote user.                            *)
(***************************************************************************)
\* The bytes user ids are made of here: 'a', 'b' and the separator '_'.
IdBytes == {97, 98, Underscore}

PeerIds ==
    UNION { [1..n -> IdBytes] : n \in 1..MaxIdLen } \cup {IdA, IdB, IdC}

PairIdle == [a |-> <<>>, b |-> <<>>, pc |-> "idle", byA |-> <<>>, byB |-> <<>>]

PairInit ==
    \E a \in PeerIds : \E b \in PeerIds \ {a} :
        pair = [a |-> a, b |-> b, pc |-> "start", byA |-> <<>>, byB |-> <<>>]

\* The Store of peer a builds its chat with peer b.
BuildByA ==
    /\ pair.pc = "start"
    /\ LET r == buildChat(User(pair.a, "A", "10.0.0.1", 1000),
                          <<User(pair.b, "B", "10.0.0.2", 1000)>>)
       IN pair' = [pair EXCEPT !.byA = r.chat.Id, !.pc = "builtA"]
    /\ UNCHANGED <<storeVars, connVars, task, sm, dir, fr>>

\* The Store of peer b builds its chat with peer a.
BuildByB ==
    /\ pair.pc = "builtA"
    /\ LET r == buildChat(User(pair.b, "B", "10.0.0.2", 1000),
                          <<User(pair.a, "A", "10.0.0.1", 1000)>>)
       IN pair' = [pair EXCEPT !.byB = r.chat.Id, !.pc = "done"]
    /\ UNCHANGED <<storeVars, connVars, task, sm, dir, fr>>

ChatIdNext == BuildByA \/ BuildByB

(***************************************************************************)
(* Peer Connection (conn.connection).  closeCallback and                   *)
(* receiveMsgCallback are parameters of NewConnection: the model counts    *)
(* their invocations.                                                      *)
(***************************************************************************)
Conns == {1}

\* capacity of writeChan and of closeChan
WriteChanCap == 5
CloseChanCap == 1

\* The messages handed to SendMessage, and the length of their gob encoding.
ConnMsgs == {"hello", "big"}
EncodedLen(m) ==
    IF m = "big" THEN MaxUint16 + 1 ELSE IF m = "m4" THEN MaxUint16 ELSE 64

\* NewConnection(u, c, conn, closeCallback, messageReceiveCallback): conn is
\* "nil" or the "open" socket handleNewConn accepted.
NewConnection(conn) ==
    [sock |-> conn,           \* c.conn: "nil", "open" or "closed"
     cm |-> "free",           \* c.cm: "free" or its holder
     writeChan |-> <<>>,      \* c.writeChan
     writeClosed |-> FALSE,   \* close(c.writeChan) has run
     closeChan |-> 0,         \* values buffered in c.closeChan
     startPc |-> "new",       \* where the goroutine running Start is
     writerPc |-> "none",     \* where the writer goroutine is
     cur |-> "",              \* the message the writer took
     wire |-> <<>>,           \* the payloads written to the socket
     sends |-> 0,             \* SendMessage calls
     received |-> 0,          \* receiveMsgCallback invocations
     callbacks |-> 0,         \* closeCallback invocations
     closeCalled |-> FALSE,   \* a Close() call has returned
     sockCloses |-> 0,        \* c.conn.Close() calls
     queueCloses |-> 0]       \* close(c.writeChan) calls

initializeConnHidesError(c, dialed) == [conn |-> c, err |-> "nil"]

\* connection.initializeConn with the outcome of net.DialTimeout: the fields
\* it leaves and the error it returns.
initializeConn(c, dialed) ==
    LET d == IF c.sock # "nil"
             THEN [c EXCEPT !.sock = "closed", !.sockCloses = @ + 1]
             ELSE c
    IN IF dialed
       THEN [conn |-> [d EXCEPT !.sock = "open"], err |-> "nil"]
       ELSE [conn |-> d, err |-> "dial"]

connWriteTwice(c, m) ==
    IF c.sock = "open" THEN [c EXCEPT !.wire = Append(Append(@, m), m)] ELSE c

\* c.conn.Write(out) of message m
connWrite(c, m) ==
    IF c.sock = "open" THEN [c EXCEPT !.wire = Append(@, m)] ELSE c

writeToConnNoLimit(c, m, dialed) ==
    LET i == IF c.sock = "nil"
             THEN initializeConn(c, dialed)
             ELSE [conn |-> c, err |-> "nil"]
    IN IF i.err # "nil" THEN i.conn ELSE connWrite(i.conn, m)

\* connection.writeToConn(m), with the outcome of the dial it makes when
\* c.conn is nil.
writeToConn(c, m, dialed) ==
    LET i == IF c.sock = "nil"
             THEN initializeConn(c, dialed)
             ELSE [conn |-> c, err |-> "nil"]
    IN IF i.err # "nil" THEN i.conn
       ELSE IF EncodedLen(m) > MaxUint16 THEN i.conn
       ELSE connWrite(i.conn, m)

writerOnCloseTearsDown(c) ==
    [c EXCEPT !.writerPc = "stopped", !.closeChan = @ - 1,
              !.callbacks = @ + 1]

\* case <-c.closeChan: return
writerOnClose(c) == [c EXCEPT !.writerPc = "stopped", !.closeChan = @ - 1]

ConnUnchanged == UNCHANGED <<storeVars, pair, task, sm, dir, fr>>

\* go c.Start(ctx): the deferred cleanup is registered, c.conn == nil decides
\* whether to dial.
Start(k) ==
    /\ ~panicked
    /\ cn[k].startPc = "new"
    /\ cn' = [cn EXCEPT ![k].startPc = IF cn[k].sock = "nil" THEN "dial" ELSE "spawn"]
    /\ UNCHANGED <<ctxDone, panicked>>
    /\ ConnUnchanged

\* c.initializeConn() in Start: on an error Start returns.
StartDial(k) ==
    /\ ~panicked
    /\ cn[k].startPc = "dial"
    /\ cn[k].cm = "free"
    /\ \E dialed \in BOOLEAN :
         LET i == initializeConn(cn[k], dialed)
         IN cn' = [cn EXCEPT ![k] = [i.conn EXCEPT !.startPc =
                                       IF i.err = "nil" THEN "spawn" ELSE "cleanup"]]
    /\ UNCHANGED <<ctxDone, panicked>>
    /\ ConnUnchanged

\* go func() { for { select ... } }(): the writer goroutine starts.
StartWriter(k) ==
    /\ ~panicked
    /\ cn[k].startPc = "spawn"
    /\ cn' = [cn EXCEPT ![k].startPc = "read", ![k].writerPc = "select"]
    /\ UNCHANGED <<ctxDone, panicked>>
    /\ ConnUnchanged

\* ReadNetworkMessage returns a message of the remote peer:
\* receiveMsgCallback is called.
ReadMessage(k) ==
    /\ ~panicked
    /\ cn[k].startPc = "read"
    /\ cn[k].sock = "open"
    /\ cn[k].received < MaxRecv
    /\ cn' = [cn EXCEPT ![k].received = @ + 1]
    /\ UNCHANGED <<ctxDone, panicked>>
    /\ ConnUnchanged

\* ReadNetworkMessage returns an error (the peer closed its end, a read
\* failed, a frame was malformed): Start returns.
ReadError(k) ==
    /\ ~panicked
    /\ cn[k].startPc = "read"
    /\ cn' = [cn EXCEPT ![k].startPc = "cleanup"]
    /\ UNCHANGED <<ctxDone, panicked>>
    /\ ConnUnchanged

\* The deferred function of Start, first part: with a socket, c.cm is
\* locked and the socket closed.
CleanupSocket(k) ==
    /\ ~panicked
    /\ cn[k].startPc = "cleanup"
    /\ IF cn[k].sock # "nil"
       THEN /\ cn[k].cm = "free"
            /\ cn' = [cn EXCEPT ![k].cm = "start", ![k].sock = "closed",
                                ![k].sockCloses = @ + 1,
                                ![k].startPc = "closeQueue"]
       ELSE cn' = [cn EXCEPT ![k].startPc = "closeQueue"]
    /\ UNCHANGED <<ctxDone, panicked>>
    /\ ConnUnchanged

\* close(c.writeChan): closing a closed channel panics.
CleanupQueue(k) ==
    /\ ~panicked
    /\ cn[k].startPc = "closeQueue"
    /\ IF cn[k].writeClosed
       THEN panicked' = TRUE /\ UNCHANGED cn
       ELSE /\ cn' = [cn EXCEPT ![k].writeClosed = TRUE,
                                ![k].queueCloses = @ + 1,
                                ![k].startPc = "callback"]
            /\ UNCHANGED panicked
    /\ UNCHANGED ctxDone
    /\ ConnUnchanged

\* c.closeCallback(c.u, c.c) is called.
CleanupCallback(k) ==
    /\ ~panicked
    /\ cn[k].startPc = "callback"
    /\ cn' = [cn EXCEPT ![k].callbacks = @ + 1, ![k].startPc = "inCallback"]
    /\ UNCHANGED <<ctxDone, panicked>>
    /\ ConnUnchanged

\* closeCallback returns, the deferred c.cm.Unlock() runs, Start has returned.
StartReturn(k) ==
    /\ ~panicked
    /\ cn[k].startPc = "inCallback"
    /\ cn' = [cn EXCEPT ![k].startPc = "closed",
                        ![k].cm = IF @ = "start" THEN "free" ELSE @]
    /\ UNCHANGED <<ctxDone, panicked>>
    /\ ConnUnchanged

\* writer: case <-ctx.Done(): return
WriterCtxDone(k) ==
    /\ ~panicked
    /\ cn[k].writerPc = "select"
    /\ ctxDone
    /\ cn' = [cn EXCEPT ![k].writerPc = "stopped"]
    /\ UNCHANGED <<ctxDone, panicked>>
    /\ ConnUnchanged

\* writer: case m, ok := <-c.writeChan with a message to take
WriterTake(k) ==
    /\ ~panicked
    /\ cn[k].writerPc = "select"
    /\ cn[k].writeChan # <<>>
    /\ cn' = [cn EXCEPT ![k].cur = Head(cn[k].writeChan),
                        ![k].writeChan = Tail(@),
                        ![k].writerPc = "write"]
    /\ UNCHANGED <<ctxDone, panicked>>
    /\ ConnUnchanged

\* writer: case m, ok := <-c.writeChan on the closed, drained channel:
\* if !ok { return }
WriterQueueClosed(k) ==
    /\ ~panicked
    /\ cn[k].writerPc = "select"
    /\ cn[k].writeChan = <<>>
    /\ cn[k].writeClosed
    /\ cn' = [cn EXCEPT ![k].writerPc = "stopped"]
    /\ UNCHANGED <<ctxDone, panicked>>
    /\ ConnUnchanged

\* writer: case <-c.closeChan: return
WriterCloseSignal(k) ==
    /\ ~panicked
    /\ cn[k].writerPc = "select"
    /\ cn[k].closeChan > 0
    /\ cn' = [cn EXCEPT ![k] = writerOnClose(cn[k])]
    /\ UNCHANGED <<ctxDone, panicked>>
    /\ ConnUnchanged

\* writer: c.writeToConn(m), under c.cm
WriterWrite(k) ==
    /\ ~panicked
    /\ cn[k].writerPc = "write"
    /\ cn[k].cm = "free"
    /\ \E dialed \in (IF cn[k].sock = "nil" THEN BOOLEAN ELSE {TRUE}) :
         cn' = [cn EXCEPT ![k] = [writeToConn(cn[k], cn[k].cur, dialed)
                                    EXCEPT !.writerPc = "select", !.cur = ""]]
    /\ UNCHANGED <<ctxDone, panicked>>
    /\ ConnUnchanged

\* connection.SendMessage(m): c.writeChan <- m blocks while the channel is
\* full and panics once it is closed.
SendMessage(k) ==
    /\ ~panicked
    /\ cn[k].sends < MaxSends
    /\ \E m \in ConnMsgs :
         IF cn[k].writeClosed
         THEN panicked' = TRUE /\ cn' = [cn EXCEPT ![k].sends = @ + 1]
         ELSE /\ Len(cn[k].writeChan) < WriteChanCap
              /\ cn' = [cn EXCEPT ![k].writeChan = Append(@, m),
                                  ![k].sends = @ + 1]
              /\ UNCHANGED panicked
    /\ UNCHANGED ctxDone
    /\ ConnUnchanged

\* The messages of a caller that hands one message after the other to
\* SendMessage: the third one is oversize.
QueueMsgs == <<"m1", "m2", "big", "m4", "m5", "m6", "m7", "m8">>

\* connection.SendMessage(m) for the next message of QueueMsgs
QueueSend(k) ==
    /\ ~panicked
    /\ cn[k].sends < MaxQueued
    /\ LET m == QueueMsgs[cn[k].sends + 1]
       IN IF cn[k].writeClosed
          THEN panicked' = TRUE /\ cn' = [cn EXCEPT ![k].sends = @ + 1]
          ELSE /\ Len(cn[k].writeChan) < WriteChanCap
               /\ cn' = [cn EXCEPT ![k].writeChan = Append(@, m),
                                   ![k].sends = @ + 1]
               /\ UNCHANGED panicked
    /\ UNCHANGED ctxDone
    /\ ConnUnchanged

closeConnSkipped(c) == c

closeConnTwice(c) == [c EXCEPT !.closeChan = @ + 2, !.closeCalled = TRUE]

\* what connection.Close() does to the connection once its send on
\* closeChan goes through
closeConn(c) == [c EXCEPT !.closeChan = @ + 1, !.closeCalled = TRUE]

\* connection.Close(): c.closeChan <- struct{}{} blocks while a value is
\* buffered.
Close(k) ==
    /\ ~panicked
    /\ cn[k].closeChan < CloseChanCap
    /\ cn' = [cn EXCEPT ![k] = closeConn(cn[k])]
    /\ UNCHANGED <<ctxDone, panicked>>
    /\ ConnUnchanged

\* The root context is cancelled.
Cancel ==
    /\ ~panicked
    /\ ~ctxDone
    /\ ctxDone' = TRUE
    /\ UNCHANGED <<cn, panicked>>
    /\ ConnUnchanged

ConnNext ==
    \/ \E k \in Conns : Start(k)
    \/ \E k \in Conns : StartDial(k)
    \/ \E k \in Conns : StartWriter(k)
    \/ \E k \in Conns : ReadMessage(k)
    \/ \E k \in Conns : ReadError(k)
    \/ \E k \in Conns : CleanupSocket(k)
    \/ \E k \in Conns : CleanupQueue(k)
    \/ \E k \in Conns : CleanupCallback(k)
    \/ \E k \in Conns : StartReturn(k)
    \/ \E k \in Conns : WriterCtxDone(k)
    \/ \E k \in Conns : WriterTake(k)
    \/ \E k \in Conns : WriterQueueClosed(k)
    \/ \E k \in Conns : WriterCloseSignal(k)
    \/ \E k \in Conns : WriterWrite(k)
    \/ \E k \in Conns : SendMessage(k)
    \/ \E k \in Conns : Close(k)
    \/ Cancel

(***************************************************************************)
(* The Socket Manager (socket.socket): the connection table keyed by the   *)
(* remote user's id, handleNewConn, handleOutgoingMessages and removeConn, *)
(* the closeCallback of every connection it creates.  The remote peer is   *)
(* userB.                                                                  *)
(***************************************************************************)
\* a connection object not created yet
NoConnection == [NewConnection("nil") EXCEPT !.startPc = "none"]

\* the ids no connection object has yet
FreeConns == {k \in SockConns : cn[k].startPc = "none"}

\* the hello and the later messages userB sends, and the line removeConn
\* appends
HelloMessage == Message(ChatIdAB, IdB, "", "hello", 1, FALSE)

DisconnectedMessagePlain ==
    Message(ChatIdAB, IdB, "B", "Disconnected", 2, FALSE)

\* the domain.Message removeConn hands to AddChatLine
DisconnectedMessage == Message(ChatIdAB, IdB, "B", "Disconnected", 2, TRUE)

\* s.store.AddChatLine(message) called from the Socket Manager or from a
\* connection's receive callback
SockAddChatLine(message) ==
    LET r == AddChatLine(chats, chatLineUpdates, message)
    IN /\ chats' = r.chats
       /\ chatLineUpdates' = r.updates
       /\ addRet' = r.err
       /\ adds' = adds + 1
       /\ UNCHANGED <<chatsUpdates, rf, syncs>>

\* s.store.GetChat(chatId) and chat.GetUser(userId) both succeed for userB
KnowsPeer ==
    /\ ChatIdAB \in DOMAIN chats
    /\ GetUser(chats[ChatIdAB], IdB).err = "nil"

SockUnchanged == UNCHANGED <<pair, ctxDone, panicked, task, dir, fr>>

\* handleNewConn, first part: the hello names a chat and a user the Store
\* knows; the connection is constructed on the accepted socket and
\* go c.Start(ctx) is run.
MaxRefused == 2

\* the chat id and the user id a first frame can name
Hellos == [ChatId : {ChatIdAB, ChatIdUnknown}, UserId : {IdA, IdB, IdC}]

\* s.store.GetChat(m.ChatId) or chat.GetUser(m.UserId) returns an error
Unacceptable(hello) ==
    IF hello.ChatId \in DOMAIN chats
    THEN GetUser(chats[hello.ChatId], hello.UserId).err # "nil"
    ELSE TRUE

refuseConnDropsEntry(s, hello) ==
    [s EXCEPT !.refused = @ \cup {hello}, !.connections = EmptyChats]

\* _ = establishedConn.Close(); log.Printf(...); return
refuseConn(s, hello) == [s EXCEPT !.refused = @ \cup {hello}]

\* handleNewConn on a first frame that names a chat the Store does not have
\* or a user that chat does not have
HandleNewConnRefuse ==
    /\ ~panicked
    /\ Cardinality(sm.refused) < MaxRefused
    /\ \E hello \in Hellos \ sm.refused :
         /\ Unacceptable(hello)
         /\ sm' = refuseConn(sm, hello)
    /\ UNCHANGED <<storeVars, cn>>
    /\ SockUnchanged

HandleNewConn(k) ==
    /\ ~panicked
    /\ k \in FreeConns
    /\ \A j \in FreeConns : k <= j
    /\ KnowsPeer
    /\ cn' = [cn EXCEPT ![k] = NewConnection("open")]
    /\ sm' = [sm EXCEPT !.hn[k] = "store"]
    /\ UNCHANGED storeVars
    /\ SockUnchanged

\* s.connections[userId] = conn
storeConnNoLock(conns, userId, k) ==
    [u \in DOMAIN conns \cup {userId} |-> IF u = userId THEN k ELSE conns[u]]

\* s.storeConn, all of it under s.cm: Close() on the entry the table holds
\* for the user, which would block while that connection's closeChan is
\* full, then the entry is set and s.cm unlocked.
StoreConn(k) ==
    /\ ~panicked
    /\ sm.hn[k] = "store"
    /\ sm.cm = SmFree
    /\ IF IdB \in DOMAIN sm.connections
       THEN LET e == sm.connections[IdB]
            IN /\ cn[e].closeChan < CloseChanCap
               /\ cn' = [cn EXCEPT ![e] = closeConn(cn[e])]
       ELSE UNCHANGED cn
    /\ sm' = [sm EXCEPT !.connections = storeConnNoLock(@, IdB, k),
                        !.cm = SmFree, !.hn[k] = "hello"]
    /\ UNCHANGED storeVars
    /\ SockUnchanged

\* handleNewConn, last part: the hello is added to the Store.
HandleNewConnHello(k) ==
    /\ ~panicked
    /\ sm.hn[k] = "hello"
    /\ SockAddChatLine(HelloMessage)
    /\ sm' = [sm EXCEPT !.hn[k] = "done"]
    /\ UNCHANGED cn
    /\ SockUnchanged

\* handleOutgoingMessages, s.getConns under s.cm: the connection of the
\* table is taken, or one is constructed without a socket, stored and
\* started.
GetConns ==
    /\ ~panicked
    /\ sm.out = 0
    /\ sm.outs < MaxOut
    /\ sm.cm = SmFree
    /\ KnowsPeer
    /\ IF IdB \in DOMAIN sm.connections
       THEN /\ sm' = [sm EXCEPT !.out = sm.connections[IdB], !.outs = @ + 1]
            /\ UNCHANGED cn
       ELSE \E k \in FreeConns :
              /\ \A j \in FreeConns : k <= j
              /\ cn' = [cn EXCEPT ![k] = NewConnection("nil")]
              /\ sm' = [sm EXCEPT !.connections = storeConnNoLock(@, IdB, k),
                                  !.out = k, !.outs = @ + 1]
    /\ UNCHANGED storeVars
    /\ SockUnchanged

\* handleOutgoingMessages: c.SendMessage(msg) on the connection getConns
\* returned; it blocks while writeChan is full and panics once it is closed.
OutgoingSend ==
    /\ ~panicked
    /\ sm.out # 0
    /\ IF cn[sm.out].writeClosed
       THEN /\ panicked' = TRUE
            /\ UNCHANGED cn
       ELSE /\ Len(cn[sm.out].writeChan) < WriteChanCap
            /\ cn' = [cn EXCEPT ![sm.out].writeChan = Append(@, "hello")]
            /\ UNCHANGED panicked
    /\ sm' = [sm EXCEPT !.out = 0]
    /\ UNCHANGED <<storeVars, pair, ctxDone, task, dir, fr>>

\* the reader of connection k reads a message; receiveMsgCallback
\* (addReceivedMessageToStore) adds it to the Store.
SockReadMessage(k) ==
    /\ ~panicked
    /\ cn[k].startPc = "read"
    /\ cn[k].sock = "open"
    /\ sm.ins < MaxIn
    /\ sm' = [sm EXCEPT !.ins = @ + 1]
    /\ SockAddChatLine(HelloMessage)
    /\ UNCHANGED cn
    /\ SockUnchanged

\* s.removeConn, all of it under s.cm: Close() on the entry the table holds
\* for the user (whichever connection that is), which would block while its
\* closeChan is full; the entry is deleted, the "Disconnected" line added to
\* the Store and s.cm unlocked.
RemoveConn(k) ==
    /\ ~panicked
    /\ cn[k].startPc = "inCallback"
    /\ sm.rm[k] = "none"
    /\ sm.cm = SmFree
    /\ IF IdB \in DOMAIN sm.connections
       THEN LET e == sm.connections[IdB]
            IN /\ cn[e].closeChan < CloseChanCap
               /\ cn' = [cn EXCEPT ![e] = closeConn(cn[e])]
       ELSE UNCHANGED cn
    /\ sm' = [sm EXCEPT !.connections = MapDelete(@, IdB),
                        !.cm = SmFree, !.rm[k] = "done"]
    /\ SockAddChatLine(DisconnectedMessage)
    /\ SockUnchanged

\* removeConn has returned: the deferred function of Start ends.
SockStartReturn(k) ==
    /\ sm.rm[k] = "done"
    /\ StartReturn(k)

\* main's warm-up loadClients finds userB registered.  It is the first
\* RefreshUsers: the Store holds no chat, so its offline loop has nothing to
\* iterate over.
SockLoadClients == RefreshUsersBegin("main", {<<userA, userB>>})

SockNext ==
    \/ SockLoadClients
    \/ RefreshUsersUser("main")
    \/ RefreshUsersReturn("main")
    \/ \E k \in SockConns : HandleNewConn(k)
    \/ \E k \in SockConns : StoreConn(k)
    \/ \E k \in SockConns : HandleNewConnHello(k)
    \/ GetConns
    \/ OutgoingSend
    \/ \E k \in SockConns : Start(k)
    \/ \E k \in SockConns : StartDial(k)
    \/ \E k \in SockConns : StartWriter(k)
    \/ \E k \in SockConns : SockReadMessage(k)
    \/ \E k \in SockConns : ReadError(k)
    \/ \E k \in SockConns : CleanupSocket(k)
    \/ \E k \in SockConns : CleanupQueue(k)
    \/ \E k \in SockConns : CleanupCallback(k)
    \/ \E k \in SockConns : RemoveConn(k)
    \/ \E k \in SockConns : SockStartReturn(k)
    \/ \E k \in SockConns : WriterTake(k)
    \/ \E k \in SockConns : WriterQueueClosed(k)
    \/ \E k \in SockConns : WriterCloseSignal(k)
    \/ \E k \in SockConns : WriterWrite(k)

\* The Socket Manager has created no connection.
SockConnInit ==
    /\ cn = [k \in SockConns |-> NoConnection]
    /\ ctxDone = FALSE
    /\ panicked = FALSE

\* No connection yet: what the Store and the chat id specifications start from.
ConnIdle ==
    /\ cn = [k \in Conns |-> NewConnection("nil")]
    /\ ctxDone = FALSE
    /\ panicked = FALSE

\* A connection constructed for an outbound chat (no socket) or for an
\* accepted socket.
ConnInit ==
    /\ cn \in [Conns -> {NewConnection("nil"), NewConnection("open")}]
    /\ ctxDone = FALSE
    /\ panicked = FALSE

Init == StoreInit /\ pair = PairIdle /\ ConnIdle

\* two peers with their ids chosen, nothing built yet
ChatIdInit == StoreInit /\ PairInit /\ ConnIdle

\* a connection just constructed, Start not yet called
ConnectionInit == StoreInit /\ pair = PairIdle /\ ConnInit

Next == StoreNext

\* A client sends PUT /ping and the Directory answers it.
Ping ==
    /\ dir.pings < MaxCalls
    /\ \E req \in PingRequests :
         dir' = [registerPingHandler(dir, req) EXCEPT !.req = req, !.pings = @ + 1]
    /\ UNCHANGED <<storeVars, pair, connVars, task, sm, fr>>

DirNext == Ping

FrUnchanged == UNCHANGED <<storeVars, pair, cn, ctxDone, task, sm, dir>>

\* the Writer of the sending peer: writeToConn(m) writes Frame(m)
FrameWrite ==
    /\ ~fr.closed
    /\ Len(fr.sent) < MaxFrames
    /\ \E m \in FrameMsgs :
         fr' = [fr EXCEPT !.stream = @ \o Frame(m), !.sent = Append(@, m)]
    /\ UNCHANGED panicked
    /\ FrUnchanged

\* the sending peer closes its end
FrameClose ==
    /\ ~fr.closed
    /\ fr' = [fr EXCEPT !.closed = TRUE]
    /\ UNCHANGED panicked
    /\ FrUnchanged

\* the Reader: one ReadNetworkMessage call on the stream; a returned
\* message is delivered, an error ends the Reader.
FrameRead ==
    /\ ~panicked
    /\ fr.err = "nil"
    /\ CanRead(fr.stream, fr.closed)
    /\ LET r == ReadNetworkMessage(fr.stream)
       IN /\ fr' = [fr EXCEPT !.stream = r.rest,
                              !.got = IF r.err = "nil" /\ ~r.panic
                                      THEN Append(@, r.msg) ELSE @,
                              !.err = r.err,
                              !.reads = @ + 1]
          /\ panicked' = r.panic
    /\ FrUnchanged

FrameNext == FrameWrite \/ FrameClose \/ FrameRead

\* the ports from portSeed on answer net.Listen in any way
PortInit ==
    /\ StoreIdle
    /\ fr = FrInit
    /\ pair = PairIdle
    /\ ConnIdle
    /\ task \in {[TaskInit EXCEPT !.answers = answers] :
                   answers \in [1 .. MaxPorts -> ListenAnswers]}

PortNext == Listen

SpecPort == PortInit /\ [][PortNext]_vars

SpecFrame == Init /\ [][FrameNext]_vars

\* a peer has sent any stream and closed its end
ReadInit ==
    /\ StoreStart
    /\ pair = PairIdle
    /\ ConnIdle
    /\ fr \in {[FrInit EXCEPT !.stream = stream, !.input = stream,
                               !.closed = TRUE] : stream \in Streams}

ReadNext == FrameRead

SpecRead == ReadInit /\ [][ReadNext]_vars

SpecDir == Init /\ [][DirNext]_vars

\* userB's next message: time.Now() of the sender goes on
EventMessage == Message(ChatIdAB, IdB, "", "hello", adds + 1, FALSE)

\* a connection's receive callback calls store.AddChatLine
EventAdd == adds < MaxEvents /\ CallAddChatLine({EventMessage})

\* a tick of the sync loop: RefreshUsers with userB registered
EventRefresh == syncs < MaxEvents /\ BeginRefresh("sync", {<<userA, userB>>})

\* the producers of Store events and the dispatcher, which may lag behind
EventNext ==
    \/ EventAdd
    \/ EventRefresh
    \/ RefreshUsersUser("sync")
    \/ RefreshUsersReturn("sync")
    \/ DispatchLineUpdate
    \/ DispatchChatUpdate

SpecEvents == Init /\ [][EventNext]_vars

SpecChatId == ChatIdInit /\ [][ChatIdNext]_vars

SpecConn == ConnectionInit /\ [][ConnNext]_vars

Spec == Init /\ [][Next]_vars

SpecLines == Init /\ [][LinesNext]_vars

\* The texts of the messages of one behaviour, in the order of the
\* AddChatLine calls.
FanTexts ==
    <<"t1", "t2", "t3", "t4", "t5", "t6", "t7", "t8", "t9", "t10", "t11",
      "t12", "t13", "t14", "t15", "t16">>

\* the next message handed to AddChatLine, with the user id it carries
FanMessage(userId) ==
    Message(ChatIdAB, userId, "", FanTexts[adds + 1], adds + 1, FALSE)

\* the UI's messageField done func: AddChatLine with the current user's id
\* for the chat that is selected, up to max messages; the UI runs once the
\* warm-up RefreshUsers has returned.
FanLocalAdd(max) ==
    /\ ~panicked
    /\ adds < max
    /\ rf["main"].pc = "done"
    /\ ChatIdAB \in DOMAIN chats
    /\ SockAddChatLine(FanMessage(userA.Id))
    /\ UNCHANGED <<cn, sm>>
    /\ SockUnchanged

\* the reader of connection k reads a frame, which carries the user id the
\* peer put into it; receiveMsgCallback adds it to the Store.
FanReceive(k) ==
    /\ ~panicked
    /\ cn[k].startPc = "read"
    /\ cn[k].sock = "open"
    /\ sm.ins < MaxIn
    /\ \E userId \in {IdA, IdB} : SockAddChatLine(FanMessage(userId))
    /\ sm' = [sm EXCEPT !.ins = @ + 1, !.rcvd = @ \cup {FanTexts[adds + 1]}]
    /\ UNCHANGED cn
    /\ SockUnchanged

\* a goroutine of the message handler RegisterStore registered
Handler(msg, pc, conn) == [msg |-> msg, pc |-> pc, conn |-> conn]

\* the dispatcher goroutine takes a MessageAdded event: go l(ctx, m)
FanDispatch ==
    /\ ~panicked
    /\ task.dispatcher = "run"
    /\ chatLineUpdates # <<>>
    /\ Cardinality(sm.hs) < MaxHandlers
    /\ chatLineUpdates' = Tail(chatLineUpdates)
    /\ sm' = [sm EXCEPT !.hs = @ \cup {Handler(Head(chatLineUpdates), "new", 0)}]
    /\ UNCHANGED <<chats, chatsUpdates, rf, addRet, adds, syncs, cn>>
    /\ SockUnchanged

\* the handler of RegisterStore goes on for m.UserId == CurrentUser().Id
forwards(m) == m.UserId = userA.Id

\* the handler of RegisterStore on message h.msg: it returns for a message
\* of another user, else handleOutgoingMessages runs getConns, which takes
\* the connection of the table or constructs one without a socket, stores
\* and starts it.
FanGetConns(h) ==
    /\ ~panicked
    /\ h.pc = "new"
    /\ IF ~forwards(h.msg)
       THEN /\ sm' = [sm EXCEPT !.hs = @ \ {h}]
            /\ UNCHANGED cn
       ELSE /\ sm.cm = SmFree
            /\ IF IdB \in DOMAIN sm.connections
               THEN /\ sm' = [sm EXCEPT !.hs = (@ \ {h}) \cup
                                 {Handler(h.msg, "send", sm.connections[IdB])}]
                    /\ UNCHANGED cn
               ELSE \E k \in FreeConns :
                      /\ \A j \in FreeConns : k <= j
                      /\ cn' = [cn EXCEPT ![k] = NewConnection("nil")]
                      /\ sm' = [sm EXCEPT
                                 !.connections = storeConnNoLock(@, IdB, k),
                                 !.hs = (@ \ {h}) \cup {Handler(h.msg, "send", k)}]
    /\ UNCHANGED storeVars
    /\ SockUnchanged

\* handleOutgoingMessages: c.SendMessage(msg) on the connection getConns
\* returned; it blocks while writeChan is full and panics once it is closed.
FanSend(h) ==
    /\ ~panicked
    /\ h.pc = "send"
    /\ IF cn[h.conn].writeClosed
       THEN /\ panicked' = TRUE
            /\ sm' = [sm EXCEPT !.hs = @ \ {h}]
            /\ UNCHANGED cn
       ELSE /\ Len(cn[h.conn].writeChan) < WriteChanCap
            /\ cn' = [cn EXCEPT ![h.conn].writeChan = Append(@, h.msg.Text)]
            /\ sm' = [sm EXCEPT !.hs = @ \ {h}, !.sent = Append(@, h.msg.Text)]
            /\ UNCHANGED panicked
    /\ UNCHANGED <<storeVars, pair, ctxDone, task, dir, fr>>

\* the user submits a few messages
FanAdd == FanLocalAdd(MaxSends)

\* the user submits more messages than the event channel holds
UiAdd == FanLocalAdd(MaxEvents)

\* The way of a message from AddChatLine to the wire: the UI and a peer add
\* messages, the dispatcher starts a handler goroutine for each event, the
\* connection to userB is dialled and its Writer writes.
FanNext ==
    \/ SockLoadClients
    \/ RefreshUsersUser("main")
    \/ RefreshUsersReturn("main")
    \/ FanAdd
    \/ FanDispatch
    \/ \E h \in sm.hs : FanGetConns(h)
    \/ \E h \in sm.hs : FanSend(h)
    \/ \E k \in SockConns : FanReceive(k)
    \/ \E k \in SockConns : Start(k)
    \/ \E k \in SockConns : StartDial(k)
    \/ \E k \in SockConns : StartWriter(k)
    \/ \E k \in SockConns : WriterTake(k)
    \/ \E k \in SockConns : WriterWrite(k)

\* The same way with a user who types faster than the dispatcher takes the
\* events, and a peer that sends nothing.
UiNext ==
    \/ SockLoadClients
    \/ RefreshUsersUser("main")
    \/ RefreshUsersReturn("main")
    \/ UiAdd
    \/ FanDispatch
    \/ \E h \in sm.hs : FanGetConns(h)
    \/ \E h \in sm.hs : FanSend(h)
    \/ \E k \in SockConns : Start(k)
    \/ \E k \in SockConns : StartDial(k)
    \/ \E k \in SockConns : StartWriter(k)
    \/ \E k \in SockConns : WriterTake(k)
    \/ \E k \in SockConns : WriterWrite(k)

\* the Store and the Socket Manager constructed, no connection yet
SockInit == StoreInit /\ pair = PairIdle /\ SockConnInit

\* one connection and a caller that submits the messages of QueueMsgs
QueueNext ==
    \/ \E k \in Conns : Start(k)
    \/ \E k \in Conns : StartDial(k)
    \/ \E k \in Conns : StartWriter(k)
    \/ \E k \in Conns : ReadError(k)
    \/ \E k \in Conns : CleanupSocket(k)
    \/ \E k \in Conns : CleanupQueue(k)
    \/ \E k \in Conns : CleanupCallback(k)
    \/ \E k \in Conns : StartReturn(k)
    \/ \E k \in Conns : WriterCtxDone(k)
    \/ \E k \in Conns : WriterTake(k)
    \/ \E k \in Conns : WriterQueueClosed(k)
    \/ \E k \in Conns : WriterCloseSignal(k)
    \/ \E k \in Conns : WriterWrite(k)
    \/ \E k \in Conns : QueueSend(k)
    \/ \E k \in Conns : Close(k)
    \/ Cancel

SpecQueue == ConnectionInit /\ [][QueueNext]_vars

SpecSync == Init /\ [][SyncNext]_vars

\* the inbound side of the Socket Manager: accepted sockets whose first
\* frame is refused or accepted
HelloNext ==
    \/ SockLoadClients
    \/ RefreshUsersUser("main")
    \/ RefreshUsersReturn("main")
    \/ HandleNewConnRefuse
    \/ \E k \in SockConns : HandleNewConn(k)
    \/ \E k \in SockConns : StoreConn(k)
    \/ \E k \in SockConns : HandleNewConnHello(k)
    \/ \E k \in SockConns : Start(k)
    \/ \E k \in SockConns : StartWriter(k)
    \/ \E k \in SockConns : WriterCloseSignal(k)

SpecHello == SockInit /\ [][HelloNext]_vars

SpecFan == SockInit /\ [][FanNext]_vars

SpecUi == SockInit /\ [][UiNext]_vars

SpecSock == SockInit /\ [][SockNext]_vars

SpecMain == Init /\ [][MainNext]_vars /\ MainFairness

(***************************************************************************)
(* Properties.                                                             *)
(***************************************************************************)
\* the ids of the owner and of the remote users of chat c
Participants(c) == {c.OwnerUser.Id} \cup {c.Users[i].Id : i \in 1..Len(c.Users)}

\* how many times message m occurs in a content
Count(content, m) == Cardinality({i \in 1..Len(content) : content[i] = m})

Times(content) == [i \in 1..Len(content) |-> content[i].At]

\* "YWFhX2JiYg==", the chat id of {aaa, bbb}, and "YV9iX2FhYQ==", the chat id
\* of {aaa, a_b}
LitChatIdAB == <<89, 87, 70, 104, 88, 50, 74, 105, 89, 103, 61, 61>>
LitChatIdAC == <<89, 86, 57, 105, 88, 50, 70, 104, 89, 81, 61, 61>>

\* the chat id of the pair {current user, u}
PairChatId(u) == IF u.Id = IdB THEN LitChatIdAB ELSE LitChatIdAC

\* C1: every message held in the content of a chat carries that chat's id,
\* and the id of the chat's owner or of one of its remote users.
MessagesBelongToTheirChat ==
    \A id \in DOMAIN chats :
        /\ chats[id].Id = id
        /\ \A i \in 1..Len(chats[id].Content) :
              /\ chats[id].Content[i].ChatId = id
              /\ chats[id].Content[i].UserId \in Participants(chats[id])

\* C1 witness: a chat that holds a message of its remote user and that a
\* later RefreshUsers has stored again (as offline).
W_MessagesBelongToTheirChat ==
    /\ LitChatIdAB \in DOMAIN chats
    /\ chats[LitChatIdAB].Offline
    /\ \E i \in 1..Len(chats[LitChatIdAB].Content) :
          chats[LitChatIdAB].Content[i].UserId = IdB

\* C2: the content of every chat is in non-decreasing order of At.
ContentSortedByAt ==
    \A id \in DOMAIN chats :
        \A i \in 1..Len(chats[id].Content) : \A j \in i..Len(chats[id].Content) :
            chats[id].Content[i].At <= chats[id].Content[j].At

\* C2 witness: messages submitted in the order t2, t1, t3 (the order the
\* pending MessageAdded events still show) are held as t1, t2, t3.
W_ContentSortedByAt ==
    /\ LitChatIdAB \in DOMAIN chats
    /\ Times(chatLineUpdates) = <<2, 1, 3>>
    /\ Times(chats[LitChatIdAB].Content) = <<1, 2, 3>>

\* C3: no step of the Store removes a chat's message or changes it: every
\* message of a chat is in that chat's content after the step, as many times.
MessagesNeverLost ==
    [][\A id \in DOMAIN chats :
          /\ id \in DOMAIN chats'
          /\ \A m \in Range(chats[id].Content) :
                Count(chats'[id].Content, m) >= Count(chats[id].Content, m)]_vars

\* C3 witness: a RefreshUsers in progress holds a snapshot of a chat taken
\* before a message was appended to it, and has the chat still to store.
W_MessagesNeverLost ==
    \E p \in Refreshers : \E id \in DOMAIN rf[p].chats :
        /\ Running(p)
        /\ rf[p].idx > Len(rf[p].users)
        /\ id \in DOMAIN chats
        /\ rf[p].chats[id].Content = <<>>
        /\ chats[id].Content # <<>>

\* what RefreshUsers(users) leaves, given as id -> Offline: the chat of every
\* listed user but the current one exists and is online, every other chat is
\* offline
Reconciled(users, flags) ==
    LET listed == {PairChatId(users[i]) :
                      i \in {k \in 1..Len(users) : users[k].Id # userA.Id}}
    IN /\ listed \subseteq DOMAIN flags
       /\ \A id \in DOMAIN flags : flags[id] = (id \notin listed)

\* C4: a RefreshUsers(L) that completes without another RefreshUsers having
\* run during it leaves the chats reconciled with L; when the chats were
\* reconciled with L as it began, it has changed neither the set of chats nor
\* an offline flag.
RefreshUsersReconciles ==
    [][\A p \in Refreshers :
          (Running(p) /\ rf'[p].pc = "done" /\ rf'[p].alone)
          => /\ rf'[p].err = "nil"
             /\ Reconciled(rf[p].users, Flags(chats'))
             /\ Reconciled(rf[p].users, rf[p].pre) => Flags(chats') = rf[p].pre]_vars

\* C4 witness: the sync loop has completed its second RefreshUsers, alone,
\* and left the chat of userB online and the chat of userC offline.
W_RefreshUsersReconciles ==
    /\ rf["sync"].pc = "done" /\ rf["sync"].alone /\ rf["sync"].err = "nil"
    /\ rf["main"].pc = "done"
    /\ syncs = 2
    /\ DOMAIN chats = {LitChatIdAB, LitChatIdAC}
    /\ ~chats[LitChatIdAB].Offline
    /\ chats[LitChatIdAC].Offline

\* C5: no step of the Store removes a chat.
ChatsNeverDeleted == [][DOMAIN chats \subseteq DOMAIN chats']_vars

\* C5 witness: the chat of a peer missing from the latest list is still
\* there, offline, with the message it held.
W_ChatsNeverDeleted ==
    /\ LitChatIdAC \in DOMAIN chats
    /\ chats[LitChatIdAC].Offline
    /\ chats[LitChatIdAC].Content # <<>>
    /\ \A p \in Refreshers : rf[p].pc = "done"

\* C6: no chat lists the current user among its remote users, RefreshUsers
\* never returns an error, and buildChat rejects every list of users that
\* holds the current user.
CurrentUserNeverRemote ==
    /\ \A id \in DOMAIN chats : userA.Id \notin Range([i \in 1..Len(chats[id].Users) |-> chats[id].Users[i].Id])
    /\ \A p \in Refreshers : rf[p].err = "nil"
    /\ \A users \in UserLists :
          (\E i \in 1..Len(users) : users[i].Id = userA.Id)
          => buildChat(userA, users).err = "WrongNewChatUsers"

\* C6 witness: RefreshUsers was given <<current user, userB>>, has been
\* through both entries and has stored the chat of userB.
W_CurrentUserNeverRemote ==
    \E p \in Refreshers :
        /\ Running(p)
        /\ rf[p].users = <<userA, userB>>
        /\ rf[p].idx = 3
        /\ LitChatIdAB \in DOMAIN chats
        /\ chats[LitChatIdAB].Users = <<userB>>

AddChatLineCalled == adds' = adds + 1

StoreUntouched == chats' = chats /\ chatLineUpdates' = chatLineUpdates

\* chat id grew by exactly one message, m, and nothing else changed
Appended(id, m) ==
    /\ DOMAIN chats' = DOMAIN chats
    /\ \A o \in DOMAIN chats \ {id} : chats'[o] = chats[o]
    /\ [chats'[id] EXCEPT !.Content = <<>>] = [chats[id] EXCEPT !.Content = <<>>]
    /\ Len(chats'[id].Content) = Len(chats[id].Content) + 1
    /\ Count(chats'[id].Content, m) = Count(chats[id].Content, m) + 1

\* C7: a call of AddChatLine returns ChatNotFound only for a chat id the
\* Store does not hold and UserNotInChat only for a user that is not in the
\* chat, in both cases leaving chats, contents and pending MessageAdded
\* events as they were; it returns nil only having stored a message of a
\* participant in a chat the Store holds.
AddChatLineFailsCleanly ==
    [][AddChatLineCalled =>
          /\ addRet'.err \in {"nil", "ChatNotFound", "UserNotInChat"}
          /\ addRet'.err = "ChatNotFound"
             => addRet'.ChatId \notin DOMAIN chats /\ StoreUntouched
          /\ addRet'.err = "UserNotInChat"
             => /\ addRet'.ChatId \in DOMAIN chats
                /\ addRet'.UserId \notin Participants(chats[addRet'.ChatId])
                /\ StoreUntouched
          /\ addRet'.err = "nil"
             => \E id \in DOMAIN chats : \E m \in Range(chats'[id].Content) :
                   /\ Appended(id, m)
                   /\ m.ChatId = id
                   /\ m.UserId \in Participants(chats[id])
                   /\ chatLineUpdates' = Append(chatLineUpdates, m)]_vars

\* C7 witness: a chat holds a message and the last AddChatLine was refused
\* with UserNotInChat.
W_AddChatLineFailsCleanly ==
    /\ addRet.err = "UserNotInChat"
    /\ addRet.ChatId = LitChatIdAB
    /\ addRet.UserId = IdC
    /\ LitChatIdAB \in DOMAIN chats
    /\ chats[LitChatIdAB].Content # <<>>

\* the names the roster of chat c (owner and remote users) holds for user id
RosterNames(c, id) ==
    {u.Name : u \in {v \in {c.OwnerUser} \cup Range(c.Users) : v.Id = id}}

\* C8: the message a successful AddChatLine appends, and the MessageAdded
\* event it emits, carry the name the chat's roster holds for the message's
\* user id.
UserNameFromRoster ==
    [][(AddChatLineCalled /\ addRet'.err = "nil") =>
          \E id \in DOMAIN chats : \E m \in Range(chats'[id].Content) :
              /\ Appended(id, m)
              /\ RosterNames(chats[id], m.UserId) = {m.UserName}
              /\ chatLineUpdates' = Append(chatLineUpdates, m)]_vars

\* C8 witness: messages of the current user and of userB are held under the
\* names "A" and "B"; no caller supplied the name "A".
W_UserNameFromRoster ==
    /\ LitChatIdAB \in DOMAIN chats
    /\ \E i \in 1..Len(chats[LitChatIdAB].Content) :
          LET m == chats[LitChatIdAB].Content[i]
          IN m.UserId = IdA /\ m.UserName = "A"
    /\ \E i \in 1..Len(chats[LitChatIdAB].Content) :
          LET m == chats[LitChatIdAB].Content[i]
          IN m.UserId = IdB /\ m.UserName = "B"

\* C9: the chat id peer a computes for peer b is the one peer b computes for
\* peer a.
ChatIdSymmetric == pair.pc = "done" => pair.byA = pair.byB

\* C9 witness: aaa and bbb both computed "YWFhX2JiYg==", with bbb the owner
\* that sorts last.
W_ChatIdSymmetric ==
    /\ pair.pc = "done"
    /\ pair.a = IdB /\ pair.b = IdA
    /\ pair.byA = LitChatIdAB
    /\ pair.byB = LitChatIdAB

\* C10: closeCallback is never invoked a second time, the socket is closed
\* at most once and the outbound queue at most once; once Start has returned,
\* closeCallback has been invoked and the queue closed exactly once.
CloseCallbackOnce ==
    \A k \in Conns :
        /\ cn[k].callbacks <= 1
        /\ cn[k].sockCloses <= 1
        /\ cn[k].queueCloses <= 1
        /\ cn[k].startPc = "closed"
           => /\ cn[k].callbacks = 1
              /\ cn[k].queueCloses = 1
              /\ cn[k].sock # "open"

\* C10 witness: Close() was called, the context cancelled and the reader has
\* ended on an established connection: Start has returned with the socket
\* closed and the callback fired.
W_CloseCallbackOnce ==
    \E k \in Conns :
        /\ cn[k].startPc = "closed"
        /\ cn[k].writerPc = "stopped"
        /\ cn[k].closeChan = 1
        /\ ctxDone
        /\ cn[k].sockCloses = 1
        /\ cn[k].callbacks = 1

\* a step of connection k's own goroutines (Start with its deferred cleanup,
\* and the writer), none of which waits for the remote peer
LocalStep(k) ==
    \/ Start(k) \/ StartDial(k) \/ StartWriter(k)
    \/ CleanupSocket(k) \/ CleanupQueue(k) \/ CleanupCallback(k)
    \/ StartReturn(k)
    \/ WriterCtxDone(k) \/ WriterTake(k) \/ WriterQueueClosed(k)
    \/ WriterCloseSignal(k) \/ WriterWrite(k)

\* connection k got a socket and started its writer
Established(k) == cn[k].sock # "nil" /\ cn[k].writerPc # "none"

\* the Closed state: Start has returned with the socket and the queue closed
\* and closeCallback invoked, and the writer has stopped
Closed(k) ==
    /\ cn[k].startPc = "closed"
    /\ cn[k].writerPc = "stopped"
    /\ cn[k].sock = "closed"
    /\ cn[k].writeClosed
    /\ cn[k].callbacks = 1

\* C11: after Close() on an established connection the connection reaches
\* Closed by its own steps: once none of its goroutines can take a step
\* without the remote peer acting, it is Closed.
CloseBringsToClosed ==
    \A k \in Conns :
        (/\ ~panicked
         /\ Established(k)
         /\ cn[k].closeCalled
         /\ ~ENABLED LocalStep(k))
        => Closed(k)

\* C12: after the root context is cancelled an established connection
\* reaches Closed by its own steps: once none of its goroutines can take a
\* step without the remote peer acting, it is Closed.
CancelBringsToClosed ==
    \A k \in Conns :
        (/\ ~panicked
         /\ Established(k)
         /\ ctxDone
         /\ ~ENABLED LocalStep(k))
        => Closed(k)

\* task t has ended, by returning or with the process
Terminated(t) == task[t] = "done" \/ task.main = "exited"

InTable(t, k) == IdB \in DOMAIN t /\ t[IdB] = k

\* storeConn has put the accepted connection j in the place of connection k
Displaced(k) ==
    /\ cn[k].closeCalled
    /\ \E j \in SockConns \ {k} :
         InTable(sm.connections, j) /\ sm.hn[j] \in {"hello", "done"}

\* C14: once an accepted connection has replaced the table entry of userB,
\* the displaced connection holds no open socket and its reader is not
\* waiting for messages it would deliver to the Store.
DisplacedHoldsNoSocket ==
    \A k \in SockConns :
        Displaced(k) => cn[k].sock # "open" /\ cn[k].startPc # "read"

\* C15: the table is a map from peer id to one connection, and a step after
\* which the table no longer refers to connection k (storeConn replaced it,
\* removeConn deleted it) has called Close() on k.
DisplacedWasClosed ==
    [][\A k \in SockConns :
          (InTable(sm.connections, k) /\ ~InTable(sm.connections', k))
              => cn'[k].closeCalled]_vars

\* an accepted connection has replaced the entry of userB, and the entry of
\* userB has been removed after that
W_DisplacedWasClosed ==
    /\ \A k \in SockConns : cn[k].closeCalled
    /\ IdB \notin DOMAIN sm.connections
    /\ \E j \in SockConns : sm.hn[j] = "done" /\ sm.rm[j] = "done"

\* the lines of the chat with userB that are error lines "Disconnected" of
\* userB
DisconnectedLines ==
    IF ChatIdAB \notin DOMAIN chats THEN {}
    ELSE {i \in DOMAIN chats[ChatIdAB].Content :
            LET l == chats[ChatIdAB].Content[i]
            IN l.ErrorMessage /\ l.Text = "Disconnected" /\ l.UserId = IdB}

\* the connections whose closeCallback has run removeConn
Destroyed == {k \in SockConns : sm.rm[k] = "done"}

\* C25: the chat with the remote user holds as many error lines
\* "Disconnected" of that user as connections to it have been destroyed, no
\* connection is destroyed twice and none without its closeCallback.
OneDisconnectedLinePerDestruction ==
    /\ Cardinality(DisconnectedLines) = Cardinality(Destroyed)
    /\ \A k \in SockConns :
          /\ cn[k].callbacks <= 1
          /\ k \in Destroyed => cn[k].callbacks = 1

\* both connections to userB have been destroyed, each with its line, in a
\* chat that holds a received line as well
W_OneDisconnectedLinePerDestruction ==
    /\ Cardinality(Destroyed) = 2
    /\ Cardinality(DisconnectedLines) = 2
    /\ Len(chats[ChatIdAB].Content) > 2

(***************************************************************************)
(* The outbound queue of a connection                                      *)
(***************************************************************************)
\* the place of message m in the order of the SendMessage calls
Pos(m) == CHOOSE i \in DOMAIN QueueMsgs : QueueMsgs[i] = m

\* C16: what is written to the socket of a connection are messages handed
\* to SendMessage, in the order of the SendMessage calls, none of them
\* twice.
WrittenInSubmissionOrder ==
    \A k \in Conns :
        LET w == cn[k].wire
        IN /\ \A i \in DOMAIN w : Pos(w[i]) <= cn[k].sends
           /\ \A i, j \in DOMAIN w : i < j => Pos(w[i]) < Pos(w[j])

\* three messages written, the oversize one between them discarded
W_WrittenInSubmissionOrder ==
    \E k \in Conns : cn[k].wire = <<"m1", "m2", "m4">>

\* C24: the step in which the Writer handles a message whose encoding is
\* longer than 65535 bytes writes nothing, leaves an established socket
\* established, the queue as it is and no teardown started, and brings the
\* Writer back to its loop.
OversizeIsDropped ==
    [][\A k \in Conns :
         (/\ cn[k].writerPc = "write"
          /\ EncodedLen(cn[k].cur) > MaxUint16
          /\ cn'[k].writerPc # "write")
         => /\ cn'[k].wire = cn[k].wire
            /\ cn[k].sock = "open" => cn'[k].sock = "open"
            /\ cn'[k].sockCloses = cn[k].sockCloses
            /\ cn'[k].writeChan = cn[k].writeChan
            /\ cn'[k].writeClosed = cn[k].writeClosed
            /\ cn'[k].callbacks = cn[k].callbacks
            /\ cn'[k].startPc = cn[k].startPc
            /\ cn'[k].writerPc = "select"]_vars

\* the oversize message has been handled on an established connection that
\* is still established, and the largest message that fits, submitted after
\* it, has been written
W_OversizeIsDropped ==
    \E k \in Conns :
        /\ cn[k].sock = "open"
        /\ cn[k].callbacks = 0
        /\ ~cn[k].writeClosed
        /\ cn[k].sends >= Pos("m4")
        /\ cn[k].wire # <<>>
        /\ cn[k].wire[Len(cn[k].wire)] = "m4"
        /\ EncodedLen("m4") = MaxUint16
        /\ \A i \in DOMAIN cn[k].wire : cn[k].wire[i] # "big"

\* C17: no message SendMessage accepted stays in the queue for ever: when
\* the writer goroutine has returned, the queue holds no message.
NoMessageLeftBehind ==
    \A k \in Conns : cn[k].writerPc = "stopped" => cn[k].writeChan = <<>>

(***************************************************************************)
(* The event channels of the Store                                         *)
(***************************************************************************)
\* AddChatLine is called for a chat that holds userB while 10 MessageAdded
\* events are pending
AddOnFullChannel ==
    /\ adds' = adds + 1
    /\ Len(chatLineUpdates) = UpdatesCap
    /\ ChatIdAB \in DOMAIN chats

\* RefreshUsers stores userB's chat while 10 ChatChanged events are pending
StoreChatOnFullChannel ==
    /\ Running("sync")
    /\ rf["sync"].idx = 2
    /\ rf'["sync"].idx = 3
    /\ Len(chatsUpdates) = UpdatesCap

\* C18: a producer of Store events does not wait for room in the channel:
\* every AddChatLine call made with 10 MessageAdded events pending stores
\* the message and returns nil, every storeChat of RefreshUsers made with 10
\* ChatChanged events pending stores the chat, and the channel is left as
\* it was (the notification alone is dropped).
ProducerNeverBlocks ==
    [][/\ AddOnFullChannel =>
             /\ addRet' = ErrNil
             /\ Len(chats'[ChatIdAB].Content) = Len(chats[ChatIdAB].Content) + 1
             /\ \E i \in DOMAIN chats'[ChatIdAB].Content :
                   chats'[ChatIdAB].Content[i].At = adds'
             /\ chatLineUpdates' = chatLineUpdates
       /\ StoreChatOnFullChannel =>
             /\ ChatIdAB \in DOMAIN chats'
             /\ ~chats'[ChatIdAB].Offline
             /\ chatsUpdates' = chatsUpdates]_vars

\* 10 MessageAdded events are pending and the chat holds a message newer
\* than the last of them (its event was dropped), and an eleventh
\* RefreshUsers has returned with 10 ChatChanged events pending
W_ProducerNeverBlocks ==
    /\ Len(chatLineUpdates) = UpdatesCap
    /\ ChatIdAB \in DOMAIN chats
    /\ \E i \in DOMAIN chats[ChatIdAB].Content :
          chats[ChatIdAB].Content[i].At > chatLineUpdates[UpdatesCap].At
    /\ Len(chatsUpdates) = UpdatesCap
    /\ syncs > UpdatesCap
    /\ ~Running("sync")

(***************************************************************************)
(* The Directory                                                           *)
(***************************************************************************)
\* string s holds a character that is not white space
NonBlank(s) == \E i \in DOMAIN s : s[i] # " "

\* the request is a client record the Directory is to admit
Admissible(req) ==
    /\ req.kind = "client"
    /\ NonBlank(req.client.ID)
    /\ NonBlank(req.client.Name)
    /\ NonBlank(req.client.IP)
    /\ req.client.Port >= 1000

\* C20: PUT /ping puts the record into the registry exactly when id, name
\* and address hold more than white space and the port is at least 1000;
\* any other request is answered 400 with a reason, "invalid client port"
\* when the port alone is wrong, and leaves the registry as it was.
PingAdmitsIffValid ==
    [][dir'.pings = dir.pings + 1 =>
         LET req == dir'.req
         IN IF Admissible(req)
            THEN /\ dir'.status = 200
                 /\ req.client.ID \in DOMAIN dir'.clients
                 /\ dir'.clients[req.client.ID] = req.client
                 /\ \A id \in DOMAIN dir.clients \ {req.client.ID} :
                       id \in DOMAIN dir'.clients
                       /\ dir'.clients[id] = dir.clients[id]
            ELSE /\ dir'.status = 400
                 /\ dir'.body # <<>>
                 /\ dir'.clients = dir.clients
                 /\ (/\ req.kind = "client"
                     /\ NonBlank(req.client.ID)
                     /\ NonBlank(req.client.Name)
                     /\ NonBlank(req.client.IP))
                       => dir'.body = <<"message", "invalid client port">>]_vars

\* a record is registered, and a later ping with port 999 and the other
\* fields valid has been refused
W_PingAdmitsIffValid ==
    /\ dir.clients # DirInit.clients
    /\ dir.req.kind = "client"
    /\ dir.req.client.Port = 999
    /\ NonBlank(dir.req.client.ID)
    /\ NonBlank(dir.req.client.Name)
    /\ NonBlank(dir.req.client.IP)
    /\ dir.status = 400
    /\ dir.body = <<"message", "invalid client port">>

(***************************************************************************)
(* Framing                                                                 *)
(***************************************************************************)
\* the frames of the messages msgs, one after the other
RECURSIVE FramesOf(_)
FramesOf(msgs) ==
    IF msgs = <<>> THEN <<>> ELSE Frame(Head(msgs)) \o FramesOf(Tail(msgs))

\* payload sizes on both sides of each digit carry, up to the largest
SampleSizes == {0, 9, 10, 99, 100, 999, 1000, 9999, 10000, 65535}

\* C22: on a stream only the Writer writes to, what the Reader has decoded
\* are the first messages written, unchanged and in order, what is left of
\* the stream are the frames of the others, and the Reader fails only with
\* EOF once the stream has ended behind the last frame; a size of up to
\* 65535 makes a header of 5 digits that is parsed back to that size.
FramingRoundTrips ==
    /\ ~panicked
    /\ Len(fr.got) <= Len(fr.sent)
    /\ fr.got = SubSeq(fr.sent, 1, Len(fr.got))
    /\ fr.err = "nil" =>
          fr.stream = FramesOf(SubSeq(fr.sent, Len(fr.got) + 1, Len(fr.sent)))
    /\ fr.err # "nil" => fr.err = "EOF" /\ fr.closed /\ fr.got = fr.sent
    /\ \A n \in SampleSizes :
          /\ Len(Sprintf05d(n)) = 5
          /\ Atoi(Sprintf05d(n)) = [err |-> "nil", val |-> n]

\* two different messages written back to back have both been decoded
W_FramingRoundTrips ==
    /\ Len(fr.sent) = 2
    /\ fr.sent[1] # fr.sent[2]
    /\ Len(fr.sent[1].Message) # Len(fr.sent[2].Message)
    /\ fr.got = fr.sent
    /\ fr.stream = <<>>

\* the five bytes are decimal digits
IsDecimal(h) == \A i \in DOMAIN h : h[i] \in 48..57

\* the five bytes write a number in decimal notation, with or without a sign
IsNumber(h) == IsDecimal(h) \/ (h[1] \in {43, 45} /\ IsDecimal(Tail(h)))

\* the number five decimal digits stand for
Decimal(h) ==
    (h[1] - 48) * 10000 + (h[2] - 48) * 1000 + (h[3] - 48) * 100
    + (h[4] - 48) * 10 + (h[5] - 48)

\* C23: ReadNetworkMessage on a malformed stream returns an error and no
\* message: EOF on an empty stream, unexpected EOF on a header of fewer than
\* 5 bytes, the size-unparseable error on a header that is not a decimal
\* number, (unexpected) EOF on a payload shorter than announced.
MalformedInputFails ==
    fr.reads > 0 =>
        /\ ~panicked
        /\ fr.got = <<>>
        /\ fr.err # "nil"
        /\ fr.input = <<>> => fr.err = "EOF"
        /\ Len(fr.input) \in 1..4 => fr.err = "unexpected EOF"
        /\ (Len(fr.input) >= 5 /\ ~IsNumber(SubSeq(fr.input, 1, 5)))
              => fr.err = "size unparseable"
        /\ (/\ Len(fr.input) >= 5
            /\ IsDecimal(SubSeq(fr.input, 1, 5))
            /\ Len(fr.input) - 5 < Decimal(SubSeq(fr.input, 1, 5)))
              => fr.err \in {"EOF", "unexpected EOF"}

(***************************************************************************)
(* The identity of the client                                              *)
(***************************************************************************)
\* C26: once the listener is bound, the port in the id of the current user
\* and the port of its record, which ping sends to the Directory, are the
\* port the listener is bound to, which is at least 1000.
IdentityOnBoundPort ==
    task.listener = "open" =>
        /\ task.port >= portSeed
        /\ task.idPort = task.port
        /\ task.cuPort = task.port

(***************************************************************************)
(* The fan-out and the life of a connection                                *)
(***************************************************************************)
\* C27: the step in which handleOutgoingMessages calls SendMessage on the
\* connection getConns returned never finds the queue of that connection
\* closed.
FanOutSendsOnOpenQueue ==
    [][(sm.out # 0 /\ sm'.out = 0) => ~cn[sm.out].writeClosed]_vars

\* C28: the removeConn a connection runs as its close callback leaves every
\* other connection as it is: the one the table holds for the peer stays in
\* the table and no Close() is called on it.
CloseCallbackTouchesOwnEntry ==
    [][\A k \in SockConns :
          (sm.rm[k] = "none" /\ sm'.rm[k] = "done")
              => \A j \in SockConns \ {k} :
                    /\ cn'[j] = cn[j]
                    /\ InTable(sm.connections, j) => InTable(sm'.connections, j)]_vars

\* C29: the table never holds a connection whose close callback has run
\* removeConn.
TableHoldsNoEndedConnection ==
    \A k \in SockConns : InTable(sm.connections, k) => sm.rm[k] # "done"

\* the connections getConns constructed without a socket
FanOutConns == {k \in SockConns : sm.hn[k] = "none" /\ cn[k].startPc # "none"}

\* C30: a connection the fan-out constructed has a socket only once its
\* Writer has written a message, and while it has none (and nobody called
\* Close() on it) it is not torn down: its queue is open, its close callback
\* has not fired and no removeConn has run for it.
LazyDialKeepsConnection ==
    \A k \in FanOutConns :
        /\ cn[k].sock = "open" => cn[k].wire # <<>>
        /\ (cn[k].sock = "nil" /\ ~cn[k].closeCalled)
              => /\ ~cn[k].writeClosed
                 /\ cn[k].callbacks = 0
                 /\ sm.rm[k] = "none"

\* the dial Start made for connection k, constructed without a socket, has
\* failed
DialFailed(k) ==
    cn[k].sock = "nil" /\ cn[k].startPc \notin {"none", "new", "dial"}

\* C31: a connection whose dial in Start failed has no Writer and no Reader
\* (nothing is taken from its queue, written or received), its queue is
\* closed once and its closeCallback invoked once by the time Start has
\* returned, no socket is ever closed, and Start goes on to return without
\* waiting for anything.
DialFailureClosesConnection ==
    \A k \in Conns :
        DialFailed(k) =>
            /\ cn[k].writerPc = "none"
            /\ cn[k].startPc # "read"
            /\ cn[k].received = 0
            /\ cn[k].wire = <<>>
            /\ cn[k].sockCloses = 0
            /\ cn[k].queueCloses <= 1
            /\ cn[k].callbacks <= 1
            /\ cn[k].startPc \in {"callback", "inCallback", "closed"}
                  => cn[k].writeClosed /\ cn[k].queueCloses = 1
            /\ cn[k].startPc \in {"inCallback", "closed"} => cn[k].callbacks = 1
            /\ (~panicked /\ ~ENABLED LocalStep(k)) => cn[k].startPc = "closed"

\* Start has returned after its dial failed, with messages left in the queue
W_DialFailureClosesConnection ==
    \E k \in Conns :
        /\ DialFailed(k)
        /\ cn[k].startPc = "closed"
        /\ cn[k].writeChan # <<>>
        /\ cn[k].callbacks = 1

(***************************************************************************)
(* The mutex of the connection table                                       *)
(***************************************************************************)
\* Close() on the connection the table holds would return at once: its
\* closeChan has room, no Close() was called on it before
EntryCanBeClosed ==
    \A k \in SockConns :
        InTable(sm.connections, k)
            => cn[k].closeChan < CloseChanCap /\ ~cn[k].closeCalled

\* C32: s.cm is free between the steps of getConns, storeConn and removeConn,
\* none of which has to wait inside: the connection they would call Close()
\* on has room in its closeChan, and a step calls Close() only on the
\* connection the table holds, on which Close() was never called before.
TableMutexIsReleased ==
    [][/\ EntryCanBeClosed
       /\ sm'.cm = SmFree
       /\ \A k \in SockConns :
             cn'[k].closeChan > cn[k].closeChan
                 => /\ InTable(sm.connections, k)
                    /\ ~cn[k].closeCalled
                    /\ cn'[k].closeChan <= CloseChanCap]_vars

\* removeConn has run for a connection on which Close() had been called
\* while it had no writer to take the value from closeChan
W_TableMutexIsReleased ==
    \E k \in SockConns :
        /\ cn[k].closeCalled
        /\ cn[k].closeChan = CloseChanCap
        /\ cn[k].writerPc = "none"
        /\ sm.rm[k] = "done"
        /\ sm.cm = SmFree

(***************************************************************************)
(* From AddChatLine to the wire                                            *)
(***************************************************************************)
\* the place of the message with text t in the order of the AddChatLine calls
FanPos(t) == CHOOSE i \in DOMAIN FanTexts : FanTexts[i] = t

\* the texts of seq that did not come from a peer
LocalOf(seq) == SelectSeq(seq, LAMBDA t : t \notin sm.rcvd)

\* the texts of seq are in the order of their AddChatLine calls
InAddOrder(seq) ==
    \A i, j \in DOMAIN seq : i < j => FanPos(seq[i]) < FanPos(seq[j])

\* C33: the messages of the current user are handed to SendMessage of the
\* peer's connection, and written to its socket, in the order in which
\* AddChatLine stored them.
FanOutKeepsOrder ==
    /\ InAddOrder(LocalOf(sm.sent))
    /\ \A k \in SockConns : InAddOrder(LocalOf(cn[k].wire))

\* the Socket Manager still has to hear of the message with text t, is
\* working on it, or has handed it to SendMessage
OnItsWay(t) ==
    \/ \E i \in DOMAIN chatLineUpdates : chatLineUpdates[i].Text = t
    \/ \E h \in sm.hs : h.msg.Text = t
    \/ \E i \in DOMAIN sm.sent : sm.sent[i] = t

\* C34: a message of the current user that AddChatLine stored is on its way
\* to SendMessage or has been handed to it, so that it can be forwarded at
\* all.
StoredMessageIsOnItsWay ==
    ChatIdAB \in DOMAIN chats =>
        \A i \in DOMAIN chats[ChatIdAB].Content :
            LET l == chats[ChatIdAB].Content[i]
            IN (l.UserId = userA.Id /\ l.Text \notin sm.rcvd) => OnItsWay(l.Text)

\* C38: what is handed to SendMessage are messages stored with the current
\* user's id, each once, and none of them is a message that came from a
\* peer.
OnlyOwnMessagesAreForwarded ==
    /\ \A i, j \in DOMAIN sm.sent : sm.sent[i] = sm.sent[j] => i = j
    /\ \A i \in DOMAIN sm.sent :
          /\ \E j \in DOMAIN chats[ChatIdAB].Content :
                LET l == chats[ChatIdAB].Content[j]
                IN l.Text = sm.sent[i] /\ l.UserId = userA.Id
          /\ sm.sent[i] \notin sm.rcvd

(***************************************************************************)
(* The warm-up, the sync loop and the UI's chat handler                    *)
(***************************************************************************)

\* C35: every ChatChanged event emitted by the RefreshUsers of the warm-up
\* is delivered to the UI's chat handler: once the warm-up has returned, the
\* UI is started and the event queue is drained, and before the first tick,
\* the UI's handler has been called with every chat of the Store.
WarmUpChatsReachUi ==
    (/\ task.tui # "idle"
     /\ task.ticks = <<>>
     /\ rf["main"].pc = "done"
     /\ chatsUpdates = <<>>)
        => DOMAIN chats \subseteq task.uiChats

\* C36: a failed Directory call neither stops the sync loop nor changes the
\* Store. A tick goes on to the GET whatever the PUT returned and leaves the
\* Store alone; a failed GET returns to the select without a call of
\* RefreshUsers, with the chats, their offline flags and the event queues
\* unchanged; and the loop ends only in its select, on a cancelled context.
FailedCallKeepsLoopAndStore ==
    [][/\ Len(task'.ticks) > Len(task.ticks)
           => /\ task.sync = "select"
              /\ task'.sync = "load"
              /\ UNCHANGED storeVars
       /\ (task.sync = "load" /\ task'.ticks[Len(task'.ticks)].get = "failed")
           => /\ task'.sync = "select"
              /\ UNCHANGED <<chats, chatLineUpdates, chatsUpdates, rf, syncs>>
       /\ (task.sync = "load" /\ task'.sync # "load")
           => /\ task'.sync = "select"
              /\ task'.ticks[Len(task'.ticks)].get \in {"failed", "ok"}
       /\ (task.sync # "done" /\ task'.sync = "done")
           => task.sync = "select" /\ ctxDone]_vars

\* a tick whose PUT and GET failed was followed by a tick whose PUT failed
\* and whose GET succeeded, and the RefreshUsers of that tick made a chat
W_FailedCallKeepsLoopAndStore ==
    /\ Len(task.ticks) = 2
    /\ task.ticks[1] = [put |-> FALSE, get |-> "failed"]
    /\ task.ticks[2] = [put |-> FALSE, get |-> "ok"]
    /\ rf["main"].pc = "idle"
    /\ rf["sync"].pc = "done"
    /\ chats # <<>>


(***************************************************************************)
(* Refused first frames                                                    *)
(***************************************************************************)

\* C37: a first frame that names a chat id unknown to the Store, or a user
\* id that is not a participant of that chat, gets its socket closed and
\* nothing else: the step creates no connection, leaves the table and the
\* connections it holds as they were and appends no message to the Store;
\* and a connection is created for an accepted socket only when the Store
\* has the chat and the chat has the user.
RefusedHelloChangesNothing ==
    [][/\ sm'.refused # sm.refused
           => /\ \E hello \in Hellos :
                    /\ sm'.refused = sm.refused \cup {hello}
                    /\ Unacceptable(hello)
              /\ cn' = cn
              /\ sm'.connections = sm.connections
              /\ sm'.hn = sm.hn
              /\ UNCHANGED <<chats, chatLineUpdates, adds>>
       /\ (\E k \in SockConns : sm.hn[k] = "none" /\ sm'.hn[k] # "none")
           => KnowsPeer /\ sm'.refused = sm.refused]_vars

\* with a connection of userB in the table and its hello in the chat, one
\* socket was refused for an unknown chat and one for a user outside the chat
W_RefusedHelloChangesNothing ==
    /\ IdB \in DOMAIN sm.connections
    /\ cn[sm.connections[IdB]].startPc = "read"
    /\ Len(chats[ChatIdAB].Content) = 1
    /\ sm.refused = {[ChatId |-> ChatIdUnknown, UserId |-> IdB],
                     [ChatId |-> ChatIdAB, UserId |-> IdC]}


(***************************************************************************)
(* Port allocation                                                         *)
(***************************************************************************)

\* the ports of the range that accept a listen
Bindable == {portSeed + i - 1 : i \in {j \in DOMAIN task.answers : task.answers[j] = "ok"}}

\* C39: port allocation binds the lowest port of the range that accepts a
\* listen, whatever the reason the lower ports refused, and fails only when
\* no port of the range can be bound.
LowestBindablePortIsBound ==
    task.listen = "done"
        => IF Bindable = {}
           THEN task.listener = "none" /\ task.listenErr # "nil"
           ELSE /\ task.listener = "open"
                /\ task.port \in Bindable
                /\ \A p \in Bindable : task.port <= p


====
